---- MODULE Spec2Model ----
(***************************************************************************)
(* Multi-tenant claims API: tenant context (tenancy/utils.py,              *)
(* tenancy/middleware.py), tenant-scoped manager (tenancy/models.py),      *)
(* role based object permissions (claims/permissions.py), the claim        *)
(* viewset with its bulk status update (claims/views.py) and the two claim *)
(* serializers (claims/serializers.py), the patient status viewset that    *)
(* enqueues a background job on commit (claims/views.py) and the three     *)
(* jobs (claims/tasks.py).                                                 *)
(*                                                                         *)
(* One HTTP request is two steps of a worker thread: the middleware sets   *)
(* the ambient tenant and runs the whole view (one action per endpoint),   *)
(* then the middleware's finally block runs and the response is returned.  *)
(***************************************************************************)
EXTENDS Integers, FiniteSets, Sequences, TLC

\* ---------------------------------------------------------------- bounds
NumThreads == 1         \* worker threads serving requests
MaxAmount == 2          \* amounts range over 1..MaxAmount
MaxStatuses == 1        \* patient status rows the log holds at most

\* ------------------------------------------------------------ vocabulary
None == "none"
Anonymous == "anonymous"

ADMIN == "admin"
CLAIMS_PROCESSOR == "claims_processor"
PROVIDER == "provider"
PATIENT == "patient"
Role == {ADMIN, CLAIMS_PROCESSOR, PROVIDER, PATIENT}

SUBMITTED == "submitted"
UNDER_REVIEW == "under_review"
APPROVED == "approved"
REJECTED == "rejected"
PAID == "paid"
Status == {SUBMITTED, UNDER_REVIEW, APPROVED, REJECTED, PAID}

SAFE_METHODS == {"GET", "HEAD", "OPTIONS"}

ADMISSION == "admission"
DISCHARGE == "discharge"
TREATMENT_INITIATED == "treatment_initiated"
StatusType == {ADMISSION, DISCHARGE, TREATMENT_INITIATED}

Orgs == {"A", "B"}
Threads == 1..NumThreads
\* The primary keys of the claims table: it holds two rows at most.
ClaimIds == {1, 2}

\* The users of the two organizations (rows of claims.User). The role column
\* is a CharField whose choices the database does not enforce: auditA holds
\* a role outside User.Role.
User ==
  [adminA |-> [organization |-> "A", role |-> ADMIN,            email |-> "admin@a"],
   auditA |-> [organization |-> "A", role |-> "auditor",        email |-> "audit@a"],
   procA  |-> [organization |-> "A", role |-> CLAIMS_PROCESSOR, email |-> "proc@a"],
   provA  |-> [organization |-> "A", role |-> PROVIDER,         email |-> "prov@a"],
   patA   |-> [organization |-> "A", role |-> PATIENT,          email |-> "pat@x"],
   adminB |-> [organization |-> "B", role |-> ADMIN,            email |-> "admin@b"]]
UserIds == DOMAIN User

\* The patients (rows of claims.Patient); Patient.email is not unique, the
\* patient of organization B carries the e-mail of A's patient user.
Patient ==
  [pA1 |-> [organization |-> "A", email |-> "pat@x"],
   pA2 |-> [organization |-> "A", email |-> "other@a"],
   pB1 |-> [organization |-> "B", email |-> "pat@x"]]
PatientIds == DOMAIN Patient

\* A claim row; a free slot of the table is NoClaim.
NoClaim ==
  [exists |-> FALSE, organization |-> None, patient |-> None, provider |-> None,
   assigned_processor |-> None, status |-> None, amount |-> 0,
   approval_reason |-> None]

\* Request bodies for POST/PUT/PATCH of the full claim representation; an
\* approval_reason, an organization or a status of None is a body without
\* that key.
Bodies ==
  { [patient |-> "pA1", provider |-> "provA",  assigned_processor |-> "procA",
     amount |-> 1, approval_reason |-> None, organization |-> None, status |-> None],
    [patient |-> "pA2", provider |-> "adminA", assigned_processor |-> None,
     amount |-> MaxAmount, approval_reason |-> None, organization |-> None, status |-> None],
    [patient |-> "pA2", provider |-> "adminA", assigned_processor |-> "adminB",
     amount |-> MaxAmount, approval_reason |-> None, organization |-> None, status |-> None],
    [patient |-> "pB1", provider |-> "provA",  assigned_processor |-> "procA",
     amount |-> 1, approval_reason |-> None, organization |-> None, status |-> None] }
NoBody ==
  [patient |-> None, provider |-> None, assigned_processor |-> None, amount |-> 0,
   approval_reason |-> None, organization |-> None, status |-> None]

\* Query parameters read by ClaimFilterBackend (None, or 0 for an amount:
\* the parameter is absent).
NoParams ==
  [status |-> None, patient_id |-> None, provider_id |-> None,
   min_amount |-> 0, max_amount |-> 0]
Params ==
  { NoParams,
    [NoParams EXCEPT !.status = SUBMITTED],
    [NoParams EXCEPT !.patient_id = "pA2"],
    [NoParams EXCEPT !.provider_id = "provA"],
    [NoParams EXCEPT !.min_amount = MaxAmount],
    [NoParams EXCEPT !.max_amount = 1] }

\* Bodies of POST /claims/bulk-status-update/.
BulkBodies ==
  { [claim_ids |-> ids, status |-> s] : ids \in (SUBSET ClaimIds) \ {{}}, s \in Status }
  \cup { [claim_ids |-> {}, status |-> APPROVED], [claim_ids |-> ClaimIds, status |-> None] }

\* Bodies of POST /patient-status/: details is the JSON value of the details
\* key, an object with a treatment_type, an object without one, or a list.
Details == {"surgery", "no_treatment_type", "list"}
PatientStatusBodies ==
  { [patient |-> "pA1", status_type |-> ADMISSION, details |-> "list"],
    [patient |-> "pA1", status_type |-> DISCHARGE, details |-> "no_treatment_type"],
    [patient |-> "pA1", status_type |-> TREATMENT_INITIATED, details |-> "surgery"],
    [patient |-> "pA1", status_type |-> TREATMENT_INITIATED,
     details |-> "no_treatment_type"],
    [patient |-> "pA1", status_type |-> TREATMENT_INITIATED, details |-> "list"],
    [patient |-> "pA1", status_type |-> "transfer", details |-> "surgery"],
    [patient |-> "pB1", status_type |-> ADMISSION, details |-> "surgery"] }

NoEvent == [patient |-> None, status_type |-> None, details |-> None]

\* A background job message: the task, its arguments and the number of
\* retries that preceded this delivery (request.retries).
NoJob ==
  [task |-> None, patient_id |-> None, organization_id |-> None,
   treatment_type |-> None, retries |-> 0]

VARIABLES
  claims,   \* the claims table: ClaimIds -> row
  tenant,   \* _thread_local.tenant of each worker thread
  resp,     \* the request a worker is serving, the claims table as the
            \* request found it (before) and the response computed for it
  patient_statuses,  \* the committed rows of the patient status table
  txn,      \* the open transaction of the request: its unsaved row and its
            \* on_commit callbacks
  queue,    \* the job messages the broker holds
  ran,      \* the job a Celery worker is running, the claims table as the
            \* job found it, the row count it logged, and inside its
            \* transaction the rows it is to visit and those it wrote
  work      \* the bulk status update or the PATCH each of the concurrent
            \* workers is in: its position, the rows it fetched, locked and
            \* wrote

vars == <<claims, tenant, resp, patient_statuses, txn, queue, ran, work>>
jobvars == <<patient_statuses, txn, queue, ran>>

\* No request in flight.
NoResp ==
  [op |-> None, thread |-> 0, user |-> None, method |-> None, claim |-> 0,
   data |-> NoBody, status |-> None, claim_ids |-> {}, params |-> NoParams,
   token |-> None, before |-> [c \in ClaimIds |-> NoClaim],
   code |-> 0, results |-> {}, updated_count |-> 0, errors |-> <<>>,
   event |-> NoEvent, atomic |-> FALSE]

\* The worker threads that serve bulk status updates concurrently.
Workers == {1, 2}

\* A worker that serves no bulk status update.
NoWork ==
  [pc |-> "idle", user |-> None, token |-> None, claim_ids |-> {}, status |-> None,
   claim |-> 0, data |-> NoBody, rows |-> <<>>, fetched |-> [c \in ClaimIds |-> NoClaim], locked |-> {},
   written |-> {}, undo |-> [c \in ClaimIds |-> NoClaim],
   updated_count |-> 0, errors |-> <<>>, code |-> 0, overlap |-> FALSE]

\* No transaction open, no job running.
NoTxn == [open |-> FALSE, rows |-> <<>>, on_commit |-> <<>>]
NoRun ==
  [job |-> NoJob, before |-> [c \in ClaimIds |-> NoClaim], count |-> 0,
   pc |-> "none", rows |-> <<>>, written |-> {}, undo |-> [c \in ClaimIds |-> NoClaim]]

\* ------------------------------------------------------- tenancy/utils.py
get_current_tenant(tn, t) == tn[t]

\* Variant of set_current_tenant that keeps the tenant in a module global.
set_current_tenant_Global(tn, t, org) ==
  [tenants |-> [x \in DOMAIN tn |-> org], returned |-> None]

\* set_current_tenant has no return statement: the caller receives None.
set_current_tenant(tn, t, org) ==
  [tenants |-> [tn EXCEPT ![t] = org], returned |-> None]

reset_current_tenant(tn, t) == [tn EXCEPT ![t] = None]

\* -------------------------------------------------- tenancy/middleware.py
is_authenticated(u) == u \in UserIds

\* Lines 9-11: token and thread-local state when get_response is called.
MiddlewareEnter(tn, t, u) ==
  IF is_authenticated(u) /\ User[u].organization # None
  THEN LET r == set_current_tenant(tn, t, User[u].organization)
       IN  [tenants |-> r.tenants, token |-> r.returned]
  ELSE [tenants |-> tn, token |-> None]

\* Lines 15-17: the finally block.
MiddlewareFinally(tn, t, token) ==
  IF token # None THEN reset_current_tenant(tn, t) ELSE tn

\* ------------------------------------------------------ tenancy/models.py
\* Variant of TenantManager.get_queryset that forgets the organization filter.
TenantManager_get_queryset_Unfiltered(db, tv) ==
  {c \in ClaimIds : db[c].exists}

\* TenantManager.get_queryset over the claims table db, ambient tenant tv.
TenantManager_get_queryset(db, tv) ==
  IF tv = None
  THEN {c \in ClaimIds : db[c].exists}
  ELSE {c \in ClaimIds : db[c].exists /\ db[c].organization = tv}

\* Variant of the manager of the patient status table without the filter.
TenantManager_patient_statuses_Unfiltered(ps, tv) == DOMAIN ps

\* The same manager over the patient status table ps: the indices of rows.
TenantManager_patient_statuses(ps, tv) ==
  IF tv = None
  THEN DOMAIN ps
  ELSE {i \in DOMAIN ps : ps[i].organization = tv}

\* The same manager over the patients table.
TenantManager_patients(tv) ==
  IF tv = None
  THEN PatientIds
  ELSE {p \in PatientIds : Patient[p].organization = tv}

\* Variant of TenantModel.save that stamps the ambient tenant on every row.
TenantModel_save_organization_AlwaysStamp(row_org, tv) ==
  IF tv # None THEN tv ELSE row_org

\* TenantModel.save: organization of the row that is written.
TenantModel_save_organization(row_org, tv) ==
  IF row_org # None THEN row_org
  ELSE IF tv # None THEN tv ELSE None

\* ------------------------------------------------------- claims/views.py
\* Variant of ClaimViewSet.get_queryset built on Claim.non_tenant_objects.
ClaimViewSet_get_queryset_NonTenant(db, tv, u) ==
  LET queryset == {c \in ClaimIds : db[c].exists}
  IN  CASE User[u].role = CLAIMS_PROCESSOR ->
             {c \in queryset : db[c].assigned_processor = u}
        [] User[u].role = PROVIDER ->
             {c \in queryset : db[c].provider = u}
        [] User[u].role = PATIENT ->
             {c \in queryset : Patient[db[c].patient].email = User[u].email}
        [] OTHER -> queryset

\* Variant of ClaimViewSet.get_queryset whose processor case is missing.
ClaimViewSet_get_queryset_NoProcessorCase(db, tv, u) ==
  LET queryset == TenantManager_get_queryset(db, tv)
  IN  CASE User[u].role = PROVIDER ->
             {c \in queryset : db[c].provider = u}
        [] User[u].role = PATIENT ->
             {c \in queryset : Patient[db[c].patient].email = User[u].email}
        [] OTHER -> queryset

ClaimViewSet_get_queryset(db, tv, u) ==
  LET queryset == TenantManager_get_queryset(db, tv)
  IN  CASE User[u].role = CLAIMS_PROCESSOR ->
             {c \in queryset : db[c].assigned_processor = u}
        [] User[u].role = PROVIDER ->
             {c \in queryset : db[c].provider = u}
        [] User[u].role = PATIENT ->
             {c \in queryset : Patient[db[c].patient].email = User[u].email}
        [] OTHER -> queryset

\* ----------------------------------------------------- claims/filters.py
ClaimFilterBackend_filter_queryset(db, qp, queryset) ==
  {c \in queryset :
     /\ qp.status = None \/ db[c].status = qp.status
     /\ qp.patient_id = None \/ db[c].patient = qp.patient_id
     /\ qp.provider_id = None \/ db[c].provider = qp.provider_id
     /\ qp.min_amount = 0 \/ db[c].amount >= qp.min_amount
     /\ qp.max_amount = 0 \/ db[c].amount <= qp.max_amount}

\* ------------------------------------------------- claims/permissions.py
has_object_permission(db, u, method, c) ==
  CASE User[u].role = ADMIN -> TRUE
    [] User[u].role = CLAIMS_PROCESSOR -> db[c].assigned_processor = u
    [] User[u].role = PROVIDER ->
         db[c].provider = u /\ method \in SAFE_METHODS
    [] User[u].role = PATIENT ->
         Patient[db[c].patient].email = User[u].email /\ method \in SAFE_METHODS
    [] OTHER -> FALSE

\* ------------------------------------------------- claims/serializers.py
MIN_AMOUNT == 1
MAX_AMOUNT == 10000000

\* Variant of ClaimSerializer.is_valid whose patient field resolves through
\* Patient.non_tenant_objects.
ClaimSerializer_is_valid_AnyPatient(tv, data) ==
  /\ data.patient \in PatientIds
  /\ data.provider \in UserIds
  /\ data.assigned_processor \in UserIds \cup {None}
  /\ data.amount >= MIN_AMOUNT /\ data.amount <= MAX_AMOUNT

\* ClaimSerializer.is_valid: the patient field resolves its primary key
\* through Patient.objects (the tenant manager), the provider through the
\* users table, the amount through the DecimalField bounds.
ClaimSerializer_is_valid(tv, data) ==
  /\ data.patient \in TenantManager_patients(tv)
  /\ data.provider \in UserIds
  /\ data.assigned_processor \in UserIds \cup {None}
  /\ data.amount >= MIN_AMOUNT /\ data.amount <= MAX_AMOUNT

\* Variant of Meta.read_only_fields without "organization".
validated_data_WritableOrganization(data) == data

\* Variant of Meta.read_only_fields without "status".
validated_data_WritableStatus(data) == [data EXCEPT !.organization = None]

\* Meta.read_only_fields: the organization key and the status key of a body
\* are dropped before the serializer saves.
validated_data(data) == [data EXCEPT !.organization = None, !.status = None]

\* ClaimSerializer.save on an existing row: organization, status and the
\* timestamps are read only, TenantModel.save keeps a set organization.
ClaimSerializer_update(row, tv, data) ==
  LET attrs == validated_data(data)
  IN  [row EXCEPT !.patient = attrs.patient,
                  !.provider = attrs.provider,
                  !.assigned_processor = attrs.assigned_processor,
                  !.amount = attrs.amount,
                  !.approval_reason =
                    IF attrs.approval_reason = None THEN @ ELSE attrs.approval_reason,
                  !.status = IF attrs.status = None THEN @ ELSE attrs.status,
                  !.organization =
                    TenantModel_save_organization(
                      IF attrs.organization = None THEN @ ELSE attrs.organization, tv)]

\* ClaimSerializer.save for a new row: a column without a validated
\* attribute takes the model default, status Claim.Status.SUBMITTED.
ClaimSerializer_create(tv, data) ==
  LET attrs == validated_data(data)
  IN  [exists |-> TRUE,
       organization |-> TenantModel_save_organization(attrs.organization, tv),
       patient |-> attrs.patient,
       provider |-> attrs.provider,
       assigned_processor |-> attrs.assigned_processor,
       status |-> IF attrs.status = None THEN SUBMITTED ELSE attrs.status,
       amount |-> attrs.amount,
       approval_reason |-> attrs.approval_reason]

\* Variant of validate that lets an admin through as well.
validate_AdminExempt(u) == User[u].role \in {CLAIMS_PROCESSOR, ADMIN}

\* Variant of validate_status without the approved/paid check.
validate_status_Unchecked(row, value) == TRUE

\* ClaimStatusUpdateSerializer.validate_status: TRUE when the value passes.
validate_status(row, value) == ~(row.status \in {APPROVED, PAID})

\* ClaimStatusUpdateSerializer.validate: TRUE when the data passes.
validate(u) == User[u].role = CLAIMS_PROCESSOR

\* ClaimStatusUpdateSerializer.is_valid: choice field, then validate_status,
\* then validate.
ClaimStatusUpdateSerializer_is_valid(row, u, value) ==
  /\ value \in Status
  /\ validate_status(row, value)
  /\ validate(u)

\* Variant of ClaimStatusUpdateSerializer whose Meta.fields is "__all__".
ClaimStatusUpdateSerializer_update_AllFields(row, tv, value, data) ==
  [ClaimSerializer_update(row, tv, [data EXCEPT !.organization = None])
     EXCEPT !.status = value]

\* ClaimStatusUpdateSerializer.save: of the body data, Meta.fields keeps
\* status (value) and approval_reason (None: the body has no such key).
ClaimStatusUpdateSerializer_update(row, tv, value, data) ==
  [row EXCEPT !.status = value,
              !.approval_reason =
                IF data.approval_reason = None THEN @ ELSE data.approval_reason,
              !.organization = TenantModel_save_organization(row.organization, tv)]

\* --------------------------------------------- claims/views.py, the views
\* What a view hands back: the table after it and the response.
Outcome(db, code, results, count, errors) ==
  [db |-> db, code |-> code, results |-> results,
   updated_count |-> count, errors |-> errors]

\* Variant of get_object that checks the object permission on the raw row
\* before looking the row up in the caller's queryset.
get_object_PermissionFirst(db, tv, u, method, qp, pk) ==
  LET queryset == ClaimFilterBackend_filter_queryset(
                    db, qp, ClaimViewSet_get_queryset(db, tv, u))
  IN  IF db[pk].exists /\ ~has_object_permission(db, u, method, pk) THEN 403
      ELSE IF pk \notin queryset THEN 404
      ELSE 0

\* permission_classes = [IsAuthenticated, CanManageClaim] on a detail route:
\* 0 when the object is found and permitted, else the status code.
get_object(db, tv, u, method, qp, pk) ==
  LET queryset == ClaimFilterBackend_filter_queryset(
                    db, qp, ClaimViewSet_get_queryset(db, tv, u))
  IN  IF pk \notin queryset THEN 404
      ELSE IF ~has_object_permission(db, u, method, pk) THEN 403
      ELSE 0

list(db, tv, u, qp) ==
  Outcome(db, 200,
          ClaimFilterBackend_filter_queryset(
            db, qp, ClaimViewSet_get_queryset(db, tv, u)),
          0, <<>>)

retrieve(db, tv, u, pk) ==
  LET denied == get_object(db, tv, u, "GET", NoParams, pk)
  IN  IF denied # 0 THEN Outcome(db, denied, {}, 0, <<>>)
      ELSE Outcome(db, 200, {pk}, 0, <<>>)

\* get_serializer_class: TRUE when the status serializer is chosen.
get_serializer_class(method, st) == method = "PATCH" /\ st # None

\* update (PUT) and partial_update (PATCH); st is the body's status key
\* (None: no such key), data the other fields of the body.
update(db, tv, u, method, pk, data, st) ==
  LET denied == get_object(db, tv, u, method, NoParams, pk)
  IN  IF denied # 0 THEN Outcome(db, denied, {}, 0, <<>>)
      ELSE IF get_serializer_class(method, st)
      THEN IF ~ClaimStatusUpdateSerializer_is_valid(db[pk], u, st)
           THEN Outcome(db, 400, {}, 0, <<>>)
           ELSE Outcome([db EXCEPT ![pk] =
                           ClaimStatusUpdateSerializer_update(db[pk], tv, st, data)],
                        200, {pk}, 0, <<>>)
      ELSE IF ~ClaimSerializer_is_valid(tv, data)
           THEN Outcome(db, 400, {}, 0, <<>>)
           ELSE Outcome([db EXCEPT ![pk] = ClaimSerializer_update(db[pk], tv, data)],
                        200, {pk}, 0, <<>>)

destroy(db, tv, u, pk) ==
  LET denied == get_object(db, tv, u, "DELETE", NoParams, pk)
  IN  IF denied # 0 THEN Outcome(db, denied, {}, 0, <<>>)
      ELSE Outcome([db EXCEPT ![pk] = NoClaim], 204, {}, 0, <<>>)

\* The primary key a new row gets: a slot of the table that holds no row.
FreeIds(db) == {c \in ClaimIds : ~db[c].exists}
NewId(db) == CHOOSE c \in FreeIds(db) : \A d \in FreeIds(db) : c <= d

create(db, tv, u, data) ==
  IF ~ClaimSerializer_is_valid(tv, data)
  THEN Outcome(db, 400, {}, 0, <<>>)
  ELSE Outcome([db EXCEPT ![NewId(db)] = ClaimSerializer_create(tv, data)],
               201, {NewId(db)}, 0, <<>>)

\* The rows of a queryset in the order the loop visits them.
RECURSIVE Rows(_)
Rows(S) ==
  IF S = {} THEN <<>>
  ELSE LET c == CHOOSE x \in S : \A y \in S : x <= y
       IN  <<c>> \o Rows(S \ {c})

\* Variant of the loop that counts a skipped row as updated.
RECURSIVE bulk_loop_CountsSkipped(_, _, _, _, _, _)
bulk_loop_CountsSkipped(db, tv, rows, new_status, updated_count, errors) ==
  IF rows = <<>> THEN Outcome(db, 200, {}, updated_count, errors)
  ELSE LET claim == Head(rows)
       IN  IF db[claim].status \in {APPROVED, PAID}
           THEN bulk_loop_CountsSkipped(
                  db, tv, Tail(rows), new_status, updated_count + 1,
                  Append(errors, [claim |-> claim, status |-> db[claim].status]))
           ELSE bulk_loop_CountsSkipped(
                  [db EXCEPT ![claim] = [@ EXCEPT !.status = new_status]],
                  tv, Tail(rows), new_status, updated_count + 1, errors)

\* Variant of the loop without the continue: a skipped row is written too.
RECURSIVE bulk_loop_NoContinue(_, _, _, _, _, _)
bulk_loop_NoContinue(db, tv, rows, new_status, updated_count, errors) ==
  IF rows = <<>> THEN Outcome(db, 200, {}, updated_count, errors)
  ELSE LET claim == Head(rows)
           skipped == db[claim].status \in {APPROVED, PAID}
       IN  bulk_loop_NoContinue(
             [db EXCEPT ![claim] = [@ EXCEPT !.status = new_status]],
             tv, Tail(rows), new_status,
             IF skipped THEN updated_count ELSE updated_count + 1,
             IF skipped
             THEN Append(errors, [claim |-> claim, status |-> db[claim].status])
             ELSE errors)

\* Lines 65-72: the loop over the locked rows.
RECURSIVE bulk_loop(_, _, _, _, _, _)
bulk_loop(db, tv, rows, new_status, updated_count, errors) ==
  IF rows = <<>> THEN Outcome(db, 200, {}, updated_count, errors)
  ELSE LET claim == Head(rows)
       IN  IF db[claim].status \in {APPROVED, PAID}
           THEN bulk_loop(db, tv, Tail(rows), new_status, updated_count,
                          Append(errors, [claim |-> claim, status |-> db[claim].status]))
           ELSE bulk_loop([db EXCEPT ![claim] =
                             [@ EXCEPT !.status = new_status,
                                       !.organization =
                                         TenantModel_save_organization(@, tv)]],
                          tv, Tail(rows), new_status, updated_count + 1, errors)

\* Variant of the check of line 53 that asks for the status alone.
bulk_fields_missing_StatusOnly(claim_ids, new_status) == new_status = None

\* Line 53, not claim_ids or not new_status: the claim_ids key is missing or
\* holds an empty list, or the status key is missing.
bulk_fields_missing(claim_ids, new_status) ==
  claim_ids = {} \/ new_status = None

\* Variant of bulk_status_update that resolves the ids through the tenant
\* manager alone, without the role filter of get_queryset.
bulk_status_update_TenantOnly(db, tv, u, claim_ids, new_status) ==
  IF claim_ids = {} \/ new_status = None
  THEN Outcome(db, 400, {}, 0, <<>>)
  ELSE LET queryset == {c \in TenantManager_get_queryset(db, tv) : c \in claim_ids}
       IN  bulk_loop(db, tv, Rows(queryset), new_status, 0, <<>>)

bulk_status_update(db, tv, u, claim_ids, new_status) ==
  IF bulk_fields_missing(claim_ids, new_status)
  THEN Outcome(db, 400, {}, 0, <<>>)
  ELSE LET queryset == {c \in ClaimViewSet_get_queryset(db, tv, u) : c \in claim_ids}
       IN  bulk_loop(db, tv, Rows(queryset), new_status, 0, <<>>)

\* ------------------------------- claims/views.py, PatientStatusViewSet
\* PatientStatusViewSet.history: the rows of get_queryset (the tenant
\* manager) of the patient named in the path.
history(ps, tv, patient_id) ==
  {i \in TenantManager_patient_statuses(ps, tv) : ps[i].patient = patient_id}

\* PatientStatusSerializer.is_valid: the patient key resolves through
\* Patient.objects (the tenant manager), status_type is a choice field.
PatientStatusSerializer_is_valid(tv, data) ==
  /\ data.patient \in TenantManager_patients(tv)
  /\ data.status_type \in StatusType

\* serializer.save(): the new row, its organization stamped by TenantModel.save.
PatientStatusSerializer_create(tv, data) ==
  [patient |-> data.patient,
   organization |-> TenantModel_save_organization(None, tv),
   status_type |-> data.status_type,
   details |-> data.details]

\* instance.details.get("treatment_type", "N/A") on a JSON object.
details_get(details) ==
  IF details = "no_treatment_type" THEN "N/A" ELSE details

\* perform_create raises AttributeError when it calls .get on details that
\* are not a JSON object.
perform_create_raises(instance) ==
  instance.status_type = TREATMENT_INITIATED /\ instance.details = "list"

\* Lines 98-110 of perform_create: the task chosen by status_type with its
\* arguments, NoJob when no case matches.
perform_create(instance) ==
  CASE instance.status_type = ADMISSION ->
         [task |-> "process_patient_admission",
          patient_id |-> instance.patient,
          organization_id |-> instance.organization,
          treatment_type |-> None, retries |-> 0]
    [] instance.status_type = DISCHARGE ->
         [task |-> "process_patient_discharge",
          patient_id |-> instance.patient,
          organization_id |-> instance.organization,
          treatment_type |-> None, retries |-> 0]
    [] instance.status_type = TREATMENT_INITIATED ->
         [task |-> "process_treatment_initiated",
          patient_id |-> instance.patient,
          organization_id |-> instance.organization,
          treatment_type |-> details_get(instance.details), retries |-> 0]
    [] OTHER -> NoJob

\* Variant of delay_on_commit that sends the message at once (delay).
delay_on_commit_Immediate(t, q, job) ==
  [txn |-> t, queue |-> Append(q, job)]

\* Task.delay_on_commit: transaction.on_commit(apply_async). Inside an
\* atomic block the callback is kept for the commit, outside of one (the
\* connection is in autocommit) it runs at once.
delay_on_commit(t, q, job) ==
  IF t.open
  THEN [txn |-> [t EXCEPT !.on_commit = Append(@, job)], queue |-> q]
  ELSE [txn |-> t, queue |-> Append(q, job)]

\* What the view hands back: committed rows, open transaction, broker queue
\* and status code.
StatusOutcome(ps, t, q, code) ==
  [ps |-> ps, txn |-> t, queue |-> q, code |-> code]

\* PatientStatusViewSet.create. atomic: the request runs in a transaction
\* (ATOMIC_REQUESTS); else every save commits at once. An exception leaving
\* the view rolls an open transaction back.
patient_status_create(ps, q, tv, data, atomic) ==
  IF ~PatientStatusSerializer_is_valid(tv, data)
  THEN StatusOutcome(ps, NoTxn, q, 400)
  ELSE LET instance == PatientStatusSerializer_create(tv, data)
           ps1 == IF atomic THEN ps ELSE Append(ps, instance)
           t1 == IF atomic
                 THEN [open |-> TRUE, rows |-> <<instance>>, on_commit |-> <<>>]
                 ELSE NoTxn
       IN  IF perform_create_raises(instance)
           THEN StatusOutcome(ps1, NoTxn, q, 500)
           ELSE IF perform_create(instance) = NoJob
           THEN StatusOutcome(ps1, t1, q, 201)
           ELSE LET d == delay_on_commit(t1, q, perform_create(instance))
                IN  StatusOutcome(ps1, d.txn, d.queue, 201)

\* -------------------------------------------------------- claims/tasks.py
\* What a task hands back: the table after it and the count it logs.
TaskOutcome(db, selected, status, approval_reason) ==
  [db |-> [c \in ClaimIds |->
             IF c \in selected
             THEN [db[c] EXCEPT !.status = status,
                                !.approval_reason =
                                  IF approval_reason = None THEN @
                                  ELSE approval_reason]
             ELSE db[c]],
   count |-> Cardinality(selected)]

\* Variant of the admission task that selects the rejected claims as well.
process_patient_admission_AlsoRejected(db, tv, patient_id, organization_id) ==
  LET selected == {c \in TenantManager_get_queryset(db, tv) :
                     /\ db[c].patient = patient_id
                     /\ db[c].organization = organization_id
                     /\ db[c].status \in {SUBMITTED, REJECTED}}
  IN  TaskOutcome(db, selected, UNDER_REVIEW, None)

\* Variant of the admission task whose filter forgets the patient.
process_patient_admission_AnyPatient(db, tv, patient_id, organization_id) ==
  LET selected == {c \in TenantManager_get_queryset(db, tv) :
                     /\ db[c].organization = organization_id
                     /\ db[c].status = SUBMITTED}
  IN  TaskOutcome(db, selected, UNDER_REVIEW, None)

process_patient_admission(db, tv, patient_id, organization_id) ==
  LET selected == {c \in TenantManager_get_queryset(db, tv) :
                     /\ db[c].patient = patient_id
                     /\ db[c].organization = organization_id
                     /\ db[c].status = SUBMITTED}
  IN  TaskOutcome(db, selected, UNDER_REVIEW, None)

\* Variant of the discharge task that writes the status alone.
process_patient_discharge_NoReason(db, tv, patient_id, organization_id) ==
  LET selected == {c \in TenantManager_get_queryset(db, tv) :
                     /\ db[c].patient = patient_id
                     /\ db[c].organization = organization_id
                     /\ db[c].status \in {SUBMITTED, UNDER_REVIEW}}
  IN  TaskOutcome(db, selected, APPROVED, None)

\* Variant of the discharge task that selects the approved claims as well.
process_patient_discharge_AlsoApproved(db, tv, patient_id, organization_id) ==
  LET selected == {c \in TenantManager_get_queryset(db, tv) :
                     /\ db[c].patient = patient_id
                     /\ db[c].organization = organization_id
                     /\ db[c].status \in {SUBMITTED, UNDER_REVIEW, APPROVED}}
  IN  TaskOutcome(db, selected, APPROVED, "Auto-finalize")

\* Variant of the discharge task that selects the rejected claims as well.
process_patient_discharge_AlsoRejected(db, tv, patient_id, organization_id) ==
  LET selected == {c \in TenantManager_get_queryset(db, tv) :
                     /\ db[c].patient = patient_id
                     /\ db[c].organization = organization_id
                     /\ db[c].status \in {SUBMITTED, UNDER_REVIEW, REJECTED}}
  IN  TaskOutcome(db, selected, APPROVED, "Auto-finalize")

\* Variant of the discharge task that selects the claims under review only.
process_patient_discharge_UnderReviewOnly(db, tv, patient_id, organization_id) ==
  LET selected == {c \in TenantManager_get_queryset(db, tv) :
                     /\ db[c].patient = patient_id
                     /\ db[c].organization = organization_id
                     /\ db[c].status = UNDER_REVIEW}
  IN  TaskOutcome(db, selected, APPROVED, "Auto-finalize")

process_patient_discharge(db, tv, patient_id, organization_id) ==
  LET selected == {c \in TenantManager_get_queryset(db, tv) :
                     /\ db[c].patient = patient_id
                     /\ db[c].organization = organization_id
                     /\ db[c].status \in {SUBMITTED, UNDER_REVIEW}}
  IN  TaskOutcome(db, selected, APPROVED, "Auto-finalize")

\* Variant of the treatment task that only acts on surgeries.
process_treatment_initiated_SurgeryOnly(db, tv, patient_id, organization_id, treatment_type) ==
  LET selected == {c \in TenantManager_get_queryset(db, tv) :
                     /\ db[c].patient = patient_id
                     /\ db[c].organization = organization_id
                     /\ db[c].status = SUBMITTED
                     /\ treatment_type = "surgery"}
  IN  TaskOutcome(db, selected, UNDER_REVIEW, None)

process_treatment_initiated(db, tv, patient_id, organization_id, treatment_type) ==
  LET selected == {c \in TenantManager_get_queryset(db, tv) :
                     /\ db[c].patient = patient_id
                     /\ db[c].organization = organization_id
                     /\ db[c].status = SUBMITTED}
  IN  TaskOutcome(db, selected, UNDER_REVIEW, None)

\* retry_kwargs of the three tasks.
max_retries == 3

\* Variant of autoretry that never gives up: past max_retries the count
\* starts over.
autoretry_Forever(job) ==
  <<[job EXCEPT !.retries = (@ + 1) % (max_retries + 1)]>>

\* autoretry_for=(Exception,): the messages a failed run sends. Task.retry
\* sends the message again with request.retries + 1 until max_retries is
\* reached, then the exception is raised and the message is given up.
autoretry(job) ==
  IF job.retries < max_retries
  THEN <<[job EXCEPT !.retries = @ + 1]>>
  ELSE <<>>

\* The worker runs the task a message names with the message's arguments.
run_task(db, tv, job) ==
  CASE job.task = "process_patient_admission" ->
         process_patient_admission(db, tv, job.patient_id, job.organization_id)
    [] job.task = "process_patient_discharge" ->
         process_patient_discharge(db, tv, job.patient_id, job.organization_id)
    [] OTHER ->
         process_treatment_initiated(db, tv, job.patient_id, job.organization_id,
                                     job.treatment_type)

\* ------------------------------------------------------------ the system
Init ==
  /\ claims = [c \in ClaimIds |-> NoClaim]
  /\ tenant = [t \in Threads |-> None]
  /\ resp = NoResp
  /\ patient_statuses = <<>>
  /\ txn = NoTxn
  /\ queue = <<>>
  /\ ran = NoRun
  /\ work = [t \in Workers |-> NoWork]

\* The ambient tenant the view of a request of user u sees on thread t:
\* what get_current_tenant returns once lines 9-11 of the middleware ran.
ViewTenant(t, u) ==
  get_current_tenant(MiddlewareEnter(tenant, t, u).tenants, t)

\* A worker thread serves one request: TenantMiddleware.__call__ up to and
\* including get_response(request); out is what the view hands back.
Serve(t, u, request, out) ==
  /\ resp = NoResp /\ ran = NoRun
  /\ UNCHANGED <<jobvars, work>>
  /\ LET m == MiddlewareEnter(tenant, t, u)
     IN  /\ claims' = out.db
         /\ tenant' = m.tenants
         /\ resp' = [request EXCEPT !.thread = t, !.user = u, !.token = m.token,
                                    !.before = claims,
                                    !.code = out.code, !.results = out.results,
                                    !.updated_count = out.updated_count,
                                    !.errors = out.errors]

List(t, u, qp) ==
  Serve(t, u, [NoResp EXCEPT !.op = "list", !.method = "GET", !.params = qp],
        list(claims, ViewTenant(t, u), u, qp))

Retrieve(t, u, pk) ==
  Serve(t, u, [NoResp EXCEPT !.op = "retrieve", !.method = "GET", !.claim = pk],
        retrieve(claims, ViewTenant(t, u), u, pk))

Update(t, u, pk, data) ==
  Serve(t, u, [NoResp EXCEPT !.op = "update", !.method = "PUT", !.claim = pk,
                             !.data = data],
        update(claims, ViewTenant(t, u), u, "PUT", pk, data, None))

PartialUpdate(t, u, pk, data, st) ==
  Serve(t, u, [NoResp EXCEPT !.op = "partial_update", !.method = "PATCH",
                             !.claim = pk, !.data = data, !.status = st],
        update(claims, ViewTenant(t, u), u, "PATCH", pk, data, st))

Destroy(t, u, pk) ==
  Serve(t, u, [NoResp EXCEPT !.op = "destroy", !.method = "DELETE", !.claim = pk],
        destroy(claims, ViewTenant(t, u), u, pk))

Create(t, u, data) ==
  /\ FreeIds(claims) # {}
  /\ Serve(t, u, [NoResp EXCEPT !.op = "create", !.method = "POST", !.data = data],
           create(claims, ViewTenant(t, u), u, data))

BulkStatusUpdate(t, u, body) ==
  Serve(t, u, [NoResp EXCEPT !.op = "bulk_status_update", !.method = "POST",
                             !.claim_ids = body.claim_ids, !.status = body.status],
        bulk_status_update(claims, ViewTenant(t, u), u, body.claim_ids, body.status))

\* GET /patient-status/history/<patient_id>/: results holds the indices of
\* the rows returned.
History(t, u, patient_id) ==
  Serve(t, u, [NoResp EXCEPT !.op = "history", !.method = "GET",
                             !.params = [NoParams EXCEPT !.patient_id = patient_id]],
        Outcome(claims, 200,
                history(patient_statuses, ViewTenant(t, u), patient_id), 0, <<>>))

\* A request without a session: IsAuthenticated refuses it with 403.
Unauthenticated(t) ==
  Serve(t, Anonymous, [NoResp EXCEPT !.op = "unauthenticated", !.method = "GET"],
        Outcome(claims, 403, {}, 0, <<>>))

\* get_response raises (the database is unreachable): nothing is written.
ViewRaises(t, u) ==
  Serve(t, u, [NoResp EXCEPT !.op = "raise", !.method = "GET"],
        Outcome(claims, 500, {}, 0, <<>>))

\* Lines 15-19 of the middleware: the finally block, then the response (or
\* the exception) leaves the worker.
ReturnResponse ==
  /\ resp # NoResp /\ ~txn.open
  /\ tenant' = MiddlewareFinally(tenant, resp.thread, resp.token)
  /\ resp' = NoResp
  /\ UNCHANGED <<claims, jobvars, work>>

\* POST /patient-status/: the middleware sets the tenant and the view runs.
PatientStatusCreate(t, u, data, atomic) ==
  /\ resp = NoResp /\ ran = NoRun
  /\ Len(patient_statuses) < MaxStatuses
  /\ LET m == MiddlewareEnter(tenant, t, u)
         out == patient_status_create(patient_statuses, queue,
                                      ViewTenant(t, u), data, atomic)
     IN  /\ tenant' = m.tenants
         /\ patient_statuses' = out.ps
         /\ txn' = out.txn
         /\ queue' = out.queue
         /\ resp' = [NoResp EXCEPT !.op = "patient_status_create",
                                    !.method = "POST", !.thread = t, !.user = u,
                                    !.token = m.token, !.before = claims,
                                    !.event = data, !.atomic = atomic,
                                    !.code = out.code]
  /\ UNCHANGED <<claims, ran, work>>

\* The request's transaction commits: its rows become visible and its
\* on_commit callbacks run in order.
Commit ==
  /\ txn.open
  /\ patient_statuses' = patient_statuses \o txn.rows
  /\ queue' = queue \o txn.on_commit
  /\ txn' = NoTxn
  /\ UNCHANGED <<claims, tenant, resp, ran, work>>

\* The commit fails: the rows and the callbacks are discarded and the
\* request ends with a server error.
Rollback ==
  /\ txn.open
  /\ txn' = NoTxn
  /\ resp' = [resp EXCEPT !.code = 500]
  /\ UNCHANGED <<claims, tenant, patient_statuses, queue, ran, work>>

\* A Celery worker takes message i from the broker and runs its task, whole,
\* in one transaction. tv is the ambient tenant of the worker's thread: none,
\* or the message's organization when the task runs eagerly on the thread of
\* the request that sent it.
RunJob(i, tv) ==
  /\ resp = NoResp /\ ran = NoRun
  /\ i \in 1..Len(queue)
  /\ tv \in {None, queue[i].organization_id}
  /\ LET out == run_task(claims, tv, queue[i])
     IN  /\ claims' = out.db
         /\ ran' = [NoRun EXCEPT !.job = queue[i], !.before = claims,
                                  !.count = out.count, !.pc = "done"]
  /\ queue' = SubSeq(queue, 1, i - 1) \o SubSeq(queue, i + 1, Len(queue))
  /\ UNCHANGED <<tenant, resp, patient_statuses, txn, work>>

\* A Celery worker takes message i and its task raises (the database is
\* unreachable, a lock wait times out): transaction.atomic rolls back what
\* the task wrote and autoretry decides whether the message is sent again.
JobFails(i) ==
  /\ resp = NoResp /\ ran = NoRun
  /\ i \in 1..Len(queue)
  /\ queue' = SubSeq(queue, 1, i - 1) \o SubSeq(queue, i + 1, Len(queue))
                 \o autoretry(queue[i])
  /\ UNCHANGED <<claims, tenant, resp, patient_statuses, txn, ran, work>>

\* The worker acknowledges the message.
JobDone ==
  /\ ran.pc = "done"
  /\ ran' = NoRun
  /\ UNCHANGED <<claims, tenant, resp, patient_statuses, txn, queue, work>>

\* No request is being served and no job is running: a worker is free.
Idle == resp = NoResp /\ ran = NoRun

Next ==
  \/ Idle /\ \E t \in Threads, u \in UserIds, qp \in Params : List(t, u, qp)
  \/ Idle /\ \E t \in Threads, u \in UserIds, pk \in ClaimIds : Retrieve(t, u, pk)
  \/ Idle /\ \E t \in Threads, u \in UserIds, pk \in ClaimIds, data \in Bodies :
       Update(t, u, pk, data)
  \/ Idle /\ \E t \in Threads, u \in UserIds, pk \in ClaimIds, data \in Bodies :
       PartialUpdate(t, u, pk, data, None)
  \/ Idle /\ \E t \in Threads, u \in UserIds, pk \in ClaimIds, st \in Status :
       PartialUpdate(t, u, pk, NoBody, st)
  \/ Idle /\ \E t \in Threads, u \in UserIds, pk \in ClaimIds : Destroy(t, u, pk)
  \/ Idle /\ \E t \in Threads, u \in UserIds, data \in Bodies : Create(t, u, data)
  \/ Idle /\ \E t \in Threads, u \in UserIds, body \in BulkBodies : BulkStatusUpdate(t, u, body)
  \/ Idle /\ \E t \in Threads : Unauthenticated(t)
  \/ Idle /\ \E t \in Threads, u \in UserIds : ViewRaises(t, u)
  \/ ReturnResponse

Spec == Init /\ [][Next]_vars

\* The claims API together with the patient status endpoint and the jobs.
ManualPatch == [NoBody EXCEPT !.approval_reason = "manual"]
JobBulkBodies == {[claim_ids |-> ClaimIds, status |-> s] : s \in Status}

\* The requests of this specification are served by one worker thread.
FirstThread == CHOOSE t \in Threads : \A x \in Threads : t <= x

JobNext ==
  \/ Idle /\ \E t \in {FirstThread}, u \in {"adminA", "adminB"}, data \in Bodies : Create(t, u, data)
  \/ Idle /\ \E t \in {FirstThread}, pk \in ClaimIds, st \in Status :
       PartialUpdate(t, "procA", pk, ManualPatch, st)
  \/ Idle /\ \E t \in {FirstThread}, body \in JobBulkBodies : BulkStatusUpdate(t, "adminA", body)
  \/ Idle /\ \E t \in {FirstThread}, data \in PatientStatusBodies, atomic \in BOOLEAN :
       PatientStatusCreate(t, "adminA", data, atomic)
  \/ Commit
  \/ Rollback
  \/ Idle /\ \E i \in 1..MaxStatuses, tv \in Orgs \cup {None} : RunJob(i, tv)
  \/ JobDone
  \/ ReturnResponse

JobSpec == Init /\ [][JobNext]_vars

\* The patient status endpoint and the jobs with runs that fail. The Celery
\* workers are a pool of their own: however many requests the API serves, a
\* message the broker holds is taken again and again (strong fairness, the
\* steps of requests and jobs being interleaved here); requests and
\* transactions end.
Attempt == \E i \in 1..MaxStatuses : JobFails(i) \/ \E tv \in Orgs \cup {None} : RunJob(i, tv)

RetryNext ==
  \/ Idle /\ \E t \in {FirstThread}, data \in Bodies : Create(t, "adminA", data)
  \/ Idle /\ \E t \in {FirstThread}, data \in PatientStatusBodies, atomic \in BOOLEAN :
       PatientStatusCreate(t, "adminA", data, atomic)
  \/ Commit
  \/ Rollback
  \/ Idle /\ \E i \in 1..MaxStatuses, tv \in Orgs \cup {None} : RunJob(i, tv)
  \/ Idle /\ \E i \in 1..MaxStatuses : JobFails(i)
  \/ JobDone
  \/ ReturnResponse

RetrySpec ==
  /\ Init /\ [][RetryNext]_vars
  /\ SF_vars(Attempt) /\ WF_vars(JobDone)
  /\ WF_vars(ReturnResponse) /\ WF_vars(Commit \/ Rollback)

\* The claims API and the patient status endpoint as a store of the rows of
\* two organizations: bodies with and without an organization key or a
\* status key, and a status PATCH that carries an approval_reason and, of
\* the full representation, an amount and the patient of another
\* organization.
StoreBodies ==
  Bodies \cup {[b EXCEPT !.organization = o] :
                 b \in {x \in Bodies : x.assigned_processor = "procA"}, o \in Orgs}
         \cup {[b EXCEPT !.status = st] :
                 b \in {x \in Bodies : x.assigned_processor = "procA"},
                 st \in Status \ {SUBMITTED}}
StoreUsers == {"adminA", "procA", "adminB"}
ForeignPatch ==
  [NoBody EXCEPT !.patient = "pB1", !.amount = MaxAmount, !.approval_reason = "manual"]

StoreNext ==
  \/ Idle /\ \E t \in {FirstThread}, u \in StoreUsers, data \in StoreBodies : Create(t, u, data)
  \/ Idle /\ \E t \in {FirstThread}, u \in StoreUsers, pk \in ClaimIds, data \in StoreBodies :
       Update(t, u, pk, data)
  \/ Idle /\ \E t \in {FirstThread}, u \in StoreUsers, pk \in ClaimIds, data \in {b \in StoreBodies : b.status = None} :
       PartialUpdate(t, u, pk, data, None)
  \/ Idle /\ \E t \in {FirstThread}, u \in StoreUsers, pk \in ClaimIds :
       PartialUpdate(t, u, pk, ForeignPatch, UNDER_REVIEW)
  \/ Idle /\ \E t \in {FirstThread}, u \in StoreUsers, qp \in Params : List(t, u, qp)
  \/ Idle /\ \E t \in {FirstThread}, u \in StoreUsers, data \in PatientStatusBodies, atomic \in BOOLEAN :
       PatientStatusCreate(t, u, data, atomic)
  \/ Commit
  \/ Rollback
  \/ Idle /\ \E t \in {FirstThread}, u \in StoreUsers, p \in PatientIds : History(t, u, p)
  \/ ReturnResponse

StoreSpec == Init /\ [][StoreNext]_vars

\* ------------------- bulk_status_update, statement by statement (views.py)
\* The rows worker t cannot lock or write: the transaction of another
\* worker, or of the running job r, holds them.
LockedByOther(w, r, t, c) ==
  \/ \E x \in Workers \ {t} : c \in w[x].locked
  \/ c \in r.written

\* What a statement of worker t reads: the rows another transaction wrote
\* and did not commit are seen as they were before that write.
ReadView(w, r, db, t) ==
  [c \in ClaimIds |->
     IF \E x \in Workers \ {t} : c \in w[x].written
     THEN w[CHOOSE x \in Workers \ {t} : c \in w[x].written].undo[c]
     ELSE IF c \in r.written THEN r.undo[c]
     ELSE db[c]]

\* Variant of select_for_update that takes no lock (a plain SELECT).
select_for_update_NoLock(matched) == {}

\* QuerySet.select_for_update inside transaction.atomic: the rows the SELECT
\* locks until the transaction ends.
select_for_update(matched) == matched

\* Variant of the rollback for a view without the atomic block: every save
\* was committed when it was made.
transaction_rollback_Autocommit(db, w) == db

\* transaction.atomic left by an exception: the rows the transaction wrote
\* are as they were before it wrote them.
transaction_rollback(db, w) ==
  [c \in ClaimIds |-> IF c \in w.written THEN w.undo[c] ELSE db[c]]

\* Lines 50-57 and 62: the middleware sets the tenant, the view reads the
\* request and enters the atomic block.
BulkBegin(t, u, body) ==
  /\ work[t].pc = "idle" /\ resp = NoResp
  /\ LET m == MiddlewareEnter(tenant, t, u)
     IN  /\ tenant' = m.tenants
         /\ work' =
              [work EXCEPT ![t] =
                 IF bulk_fields_missing(body.claim_ids, body.status)
                 THEN [NoWork EXCEPT !.pc = "respond", !.user = u,
                                     !.token = m.token,
                                     !.claim_ids = body.claim_ids,
                                     !.status = body.status, !.code = 400]
                 ELSE [NoWork EXCEPT !.pc = "select", !.user = u,
                                     !.token = m.token,
                                     !.claim_ids = body.claim_ids,
                                     !.status = body.status,
                                     !.overlap =
                                       \E x \in Workers \ {t} : work[x].pc = "loop"]]
  /\ UNCHANGED <<claims, resp, jobvars>>

\* Line 63 with the first iteration of line 65: the SELECT ... FOR UPDATE is
\* executed; it waits while another transaction holds a row it matches.
BulkSelect(t) ==
  /\ work[t].pc = "select"
  /\ LET view == ReadView(work, ran, claims, t)
         matched == {c \in ClaimViewSet_get_queryset(
                              view, get_current_tenant(tenant, t), work[t].user) :
                       c \in work[t].claim_ids}
     IN  /\ \A c \in select_for_update(matched) : ~LockedByOther(work, ran, t, c)
         /\ work' =
              [work EXCEPT ![t] =
                 [@ EXCEPT !.pc = "loop",
                           !.rows = Rows(matched),
                           !.fetched = [c \in ClaimIds |->
                                          IF c \in matched THEN view[c] ELSE NoClaim],
                           !.locked = select_for_update(matched)]]
  /\ UNCHANGED <<claims, tenant, resp, jobvars>>

\* Lines 65-72, one iteration: the fetched object is skipped, or its status
\* is set and the object is saved (an UPDATE of the whole row, which waits
\* while another transaction holds the row).
BulkSave(t) ==
  /\ work[t].pc = "loop" /\ work[t].rows # <<>>
  /\ LET claim == Head(work[t].rows)
         obj == work[t].fetched[claim]
     IN  IF obj.status \in {APPROVED, PAID}
         THEN /\ work' =
                   [work EXCEPT ![t] =
                      [@ EXCEPT !.rows = Tail(@),
                                !.errors =
                                  Append(@, [claim |-> claim, status |-> obj.status])]]
              /\ UNCHANGED claims
         ELSE /\ ~LockedByOther(work, ran, t, claim)
              /\ claims' =
                   [claims EXCEPT ![claim] =
                      [obj EXCEPT !.status = work[t].status,
                                  !.organization =
                                    TenantModel_save_organization(
                                      @, get_current_tenant(tenant, t))]]
              /\ work' =
                   [work EXCEPT ![t] =
                      [@ EXCEPT !.rows = Tail(@),
                                !.locked = @ \cup {claim},
                                !.written = @ \cup {claim},
                                !.undo = IF claim \in work[t].written THEN @
                                         ELSE [@ EXCEPT ![claim] = claims[claim]],
                                !.updated_count = @ + 1]]
  /\ UNCHANGED <<tenant, resp, jobvars>>

\* claim.save() raises (the connection is lost): the exception leaves the
\* atomic block, the transaction is rolled back and the request ends in 500.
BulkSaveRaises(t) ==
  /\ work[t].pc = "loop" /\ work[t].rows # <<>>
  /\ work[t].fetched[Head(work[t].rows)].status \notin {APPROVED, PAID}
  /\ claims' = transaction_rollback(claims, work[t])
  /\ work' = [work EXCEPT ![t] =
                [@ EXCEPT !.pc = "respond", !.code = 500, !.rows = <<>>,
                          !.locked = {}, !.written = {},
                          !.fetched = NoWork.fetched, !.undo = NoWork.undo]]
  /\ UNCHANGED <<tenant, resp, jobvars>>

\* The loop is over: the atomic block commits and line 74 builds the response.
BulkCommit(t) ==
  /\ work[t].pc = "loop" /\ work[t].rows = <<>>
  /\ work' = [work EXCEPT ![t] =
                [@ EXCEPT !.pc = "respond", !.code = 200,
                          !.locked = {}, !.written = {},
                          !.fetched = NoWork.fetched, !.undo = NoWork.undo]]
  /\ UNCHANGED <<claims, tenant, resp, jobvars>>

\* The finally block of the middleware; the response leaves the worker.
BulkReturn(t) ==
  /\ work[t].pc = "respond"
  /\ tenant' = MiddlewareFinally(tenant, t, work[t].token)
  /\ work' = [work EXCEPT ![t] = NoWork]
  /\ UNCHANGED <<claims, resp, jobvars>>

\* The claims API under concurrent bulk status updates: the claims are
\* created while no bulk status update is in flight.
AllIdle == \A t \in Workers : work[t].pc = "idle"
ConcBulkBodies ==
  {[claim_ids |-> ids, status |-> s] : ids \in {{1}, ClaimIds}, s \in {APPROVED, REJECTED}}
    \cup {[claim_ids |-> {}, status |-> APPROVED], [claim_ids |-> {1}, status |-> None]}
ConcBodies == {b \in Bodies : b.assigned_processor = "procA"}

ConcInit ==
  /\ claims = [c \in ClaimIds |-> NoClaim]
  /\ tenant = [t \in Workers |-> None]
  /\ resp = NoResp
  /\ patient_statuses = <<>>
  /\ txn = NoTxn
  /\ queue = <<>>
  /\ ran = NoRun
  /\ work = [t \in Workers |-> NoWork]

ConcNext ==
  \/ (Idle /\ AllIdle) /\ \E t \in {FirstThread}, u \in {"adminA", "adminB"}, data \in ConcBodies :
       Create(t, u, data)
  \/ ReturnResponse
  \/ \E t \in Workers, u \in {"adminA", "adminB"}, body \in ConcBulkBodies : BulkBegin(t, u, body)
  \/ \E t \in Workers : BulkSelect(t)
  \/ \E t \in Workers : BulkSave(t)
  \/ \E t \in Workers : BulkSaveRaises(t)
  \/ \E t \in Workers : BulkCommit(t)
  \/ \E t \in Workers : BulkReturn(t)

ConcSpec == ConcInit /\ [][ConcNext]_vars

\* ------------------------------------------------------------ properties
SingleWrites == {"update", "partial_update", "destroy"}
Writes == SingleWrites \cup {"bulk_status_update"}
Frozen == {APPROVED, PAID}

\* The organization of the user a response answers.
RespOrg(r) == User[r.user].organization

\* Claim c of table db as the role of user u may see it inside u's
\* organization: admin all, processor assigned, provider provided, patient
\* owned.
RoleVisible(db, u, c) ==
  /\ db[c].exists
  /\ db[c].organization = User[u].organization
  /\ CASE User[u].role = ADMIN -> TRUE
       [] User[u].role = CLAIMS_PROCESSOR -> db[c].assigned_processor = u
       [] User[u].role = PROVIDER -> db[c].provider = u
       [] User[u].role = PATIENT -> Patient[db[c].patient].email = User[u].email
       [] OTHER -> FALSE

\* C1: a user of another organization than a claim's gets 404 when reading
\* the claim, and no list answered to a user contains a claim of another
\* organization, whatever requests the workers served before.
C1_CrossTenantReadNotFound ==
  /\ (resp.op = "retrieve" /\ claims[resp.claim].exists
        /\ claims[resp.claim].organization # RespOrg(resp))
       => resp.code = 404
  /\ resp.op = "list" =>
       \A c \in resp.results : claims[c].organization = RespOrg(resp)

\* A processor of A has fetched a claim of B assigned to that processor.
C1_Witness ==
  /\ resp.op = "retrieve" /\ resp.user = "procA" /\ resp.code = 404
  /\ claims[resp.claim].exists
  /\ claims[resp.claim].organization = "B"
  /\ claims[resp.claim].assigned_processor = "procA"

\* C2: no update, partial update, delete or bulk status update by a user of
\* one organization changes or removes a claim of another organization, and
\* the single-item writes on such a claim answer 404.
C2_CrossTenantWriteDenied ==
  resp.op \in Writes =>
    \A c \in ClaimIds :
      (resp.before[c].exists /\ resp.before[c].organization # RespOrg(resp))
        => /\ claims[c] = resp.before[c]
           /\ (resp.op \in SingleWrites /\ resp.claim = c) => resp.code = 404

\* An admin of A has sent a write to a claim of B, or named it in a bulk
\* status update.
C2_Witness ==
  /\ resp.user = "adminA"
  /\ \/ resp.op \in SingleWrites /\ resp.code = 404
        /\ resp.before[resp.claim].exists
        /\ resp.before[resp.claim].organization = "B"
     \/ resp.op = "bulk_status_update" /\ resp.code = 200
        /\ \E c \in resp.claim_ids :
             resp.before[c].exists /\ resp.before[c].organization = "B"

\* C3: when the middleware has returned (or passed on an exception) for the
\* request of an authenticated user, the worker thread's ambient tenant is
\* none.
C3_TenantClearedAfterRequest ==
  [][(resp # NoResp /\ resp' = NoResp /\ is_authenticated(resp.user))
       => get_current_tenant(tenant', resp.thread) = None]_vars

\* C4: no PUT, PATCH, DELETE or bulk status update sent by a provider or a
\* patient changes or removes any claim, their own claims included.
C4_ProviderPatientNeverWrite ==
  (resp.op \in Writes /\ User[resp.user].role \in {PROVIDER, PATIENT})
    => claims = resp.before

\* C5: a PATCH carrying a status on a claim that is approved or paid, sent by
\* a user who gets past the queryset and the object permission, is answered
\* 400 and leaves the status as it was.
C5_FrozenStatusPatchRejected ==
  (/\ resp.op = "partial_update" /\ resp.status # None
   /\ resp.before[resp.claim].exists
   /\ resp.before[resp.claim].status \in Frozen
   /\ resp.code \notin {403, 404})
    => /\ resp.code = 400
       /\ claims[resp.claim].status = resp.before[resp.claim].status

\* The assigned processor has sent a status PATCH to an approved or paid
\* claim and got 400.
C5_Witness ==
  /\ resp.op = "partial_update" /\ resp.status # None /\ resp.code = 400
  /\ resp.user = "procA"
  /\ resp.before[resp.claim].exists
  /\ resp.before[resp.claim].assigned_processor = "procA"
  /\ resp.before[resp.claim].organization = "A"
  /\ resp.before[resp.claim].status \in Frozen
  /\ claims[resp.claim] = resp.before[resp.claim]

\* C6: a claim that is approved or paid is never changed or removed by any
\* later operation.
C6_FrozenClaimImmutable ==
  [][\A c \in ClaimIds :
       (claims[c].exists /\ claims[c].status \in Frozen)
         => claims'[c] = claims[c]]_vars

\* C7: a bulk status update by an admin, processor, provider or patient
\* leaves every claim outside the caller's organization or outside the
\* caller's role view unchanged and reports no error for it; an admin of A who bulk-updates a submitted claim of A and a
\* submitted claim of B to approved gets updated_count 1 and no errors, the
\* claim of A approved and the claim of B still submitted.
C7_BulkOnlyVisibleClaims ==
  (resp.op = "bulk_status_update" /\ User[resp.user].role \in Role) =>
    /\ \A c \in ClaimIds :
         ~RoleVisible(resp.before, resp.user, c) =>
           /\ claims[c] = resp.before[c]
           /\ \A i \in 1..Len(resp.errors) : resp.errors[i].claim # c
    /\ \A x, y \in ClaimIds :
         (/\ resp.user = "adminA"
          /\ resp.claim_ids = {x, y} /\ resp.status = APPROVED
          /\ resp.before[x].exists /\ resp.before[x].organization = "A"
          /\ resp.before[x].status = SUBMITTED
          /\ resp.before[y].exists /\ resp.before[y].organization = "B"
          /\ resp.before[y].status = SUBMITTED)
         => /\ resp.updated_count = 1 /\ resp.errors = <<>>
            /\ claims[x].status = APPROVED
            /\ claims[y].status = SUBMITTED

\* The admin of A has bulk-approved a submitted claim of A together with a
\* submitted claim of B.
C7_Witness ==
  /\ resp.op = "bulk_status_update" /\ resp.user = "adminA"
  /\ resp.status = APPROVED /\ resp.updated_count = 1 /\ resp.errors = <<>>
  /\ \E x, y \in ClaimIds :
       /\ resp.claim_ids = {x, y}
       /\ resp.before[x].organization = "A" /\ resp.before[x].status = SUBMITTED
       /\ claims[x].status = APPROVED
       /\ resp.before[y].organization = "B" /\ resp.before[y].status = SUBMITTED
       /\ claims[y].status = SUBMITTED

\* The requested claims the caller may see, and those of them that are
\* approved or paid, when the request arrives.
VisibleRequested(r) ==
  {c \in r.claim_ids : RoleVisible(r.before, r.user, c)}
FrozenRequested(r) ==
  {c \in VisibleRequested(r) : r.before[c].status \in Frozen}

\* C8: an accepted bulk status update by an admin, processor, provider or
\* patient returns as updated_count the number of
\* requested claims visible to the caller minus those already approved or
\* paid, and updated_count plus the number of errors is the number of
\* visible requested claims.
C8_BulkUpdatedCount ==
  (/\ resp.op = "bulk_status_update" /\ resp.code = 200
   /\ User[resp.user].role \in Role) =>
    /\ resp.updated_count =
         Cardinality(VisibleRequested(resp)) - Cardinality(FrozenRequested(resp))
    /\ resp.updated_count + Len(resp.errors) = Cardinality(VisibleRequested(resp))

\* A bulk status update over a visible approved or paid claim and a visible
\* open claim has counted one update and one error.
C8_Witness ==
  /\ resp.op = "bulk_status_update" /\ resp.code = 200
  /\ resp.updated_count = 1 /\ Len(resp.errors) = 1
  /\ Cardinality(VisibleRequested(resp)) = 2
  /\ Cardinality(FrozenRequested(resp)) = 1

\* C9: in a bulk status update by an admin, processor, provider or patient
\* that names claims and a status, every resolved
\* claim that is approved or paid gets exactly one error entry and keeps its
\* status, every other resolved claim ends with the target status, and the
\* answer is 200 with the updated rows kept even when rows were skipped.
C9_BulkSkipsFrozen ==
  (/\ resp.op = "bulk_status_update" /\ resp.claim_ids # {} /\ resp.status # None
   /\ User[resp.user].role \in Role) =>
    /\ resp.code = 200
    /\ \A c \in VisibleRequested(resp) :
         IF resp.before[c].status \in Frozen
         THEN /\ claims[c] = resp.before[c]
              /\ Cardinality({i \in 1..Len(resp.errors) :
                                resp.errors[i].claim = c}) = 1
              /\ \A i \in 1..Len(resp.errors) :
                   resp.errors[i].claim = c =>
                     resp.errors[i].status = resp.before[c].status
         ELSE /\ claims[c].status = resp.status
              /\ \A i \in 1..Len(resp.errors) : resp.errors[i].claim # c

\* A bulk status update has skipped a paid claim and moved a submitted claim
\* to rejected in the same request.
C9_Witness ==
  /\ resp.op = "bulk_status_update" /\ resp.code = 200
  /\ resp.status = REJECTED /\ resp.updated_count = 1
  /\ \E x, y \in resp.claim_ids :
       /\ resp.before[x].status = PAID /\ claims[x].status = PAID
       /\ resp.errors = <<[claim |-> x, status |-> PAID]>>
       /\ resp.before[y].status = SUBMITTED /\ claims[y].status = REJECTED

\* C10: a list answered to a claims processor holds only claims assigned to
\* that processor, whatever the filter parameters.
C10_ProcessorListOnlyAssigned ==
  (resp.op = "list" /\ User[resp.user].role = CLAIMS_PROCESSOR) =>
    \A c \in resp.results : claims[c].assigned_processor = resp.user

\* A processor's filtered list returned a claim while the organization also
\* holds a claim assigned to somebody else or to nobody.
C10_Witness ==
  /\ resp.op = "list" /\ resp.user = "procA" /\ resp.results # {}
  /\ resp.params # NoParams
  /\ \E c \in ClaimIds :
       /\ claims[c].exists /\ claims[c].organization = "A"
       /\ claims[c].assigned_processor # "procA"
       /\ c \notin resp.results

\* Claim c of table db is excluded from what user u can look up: by the
\* tenant filter, or by the ownership filter of u's role.
Excluded(db, u, c) ==
  \/ db[c].organization # User[u].organization
  \/ User[u].role = CLAIMS_PROCESSOR /\ db[c].assigned_processor # u
  \/ User[u].role = PROVIDER /\ db[c].provider # u
  \/ User[u].role = PATIENT /\ Patient[db[c].patient].email # User[u].email

\* C11: a fetch, update, partial update or delete of a single claim that the
\* tenant filter or the ownership filter of the caller's role excludes is
\* answered 404, never 403, and changes no claim.
C11_ExcludedClaimNotFound ==
  (/\ resp.op \in SingleWrites \cup {"retrieve"}
   /\ resp.before[resp.claim].exists
   /\ Excluded(resp.before, resp.user, resp.claim))
    => resp.code = 404 /\ claims = resp.before

\* A provider has sent a write to a claim of the own organization that
\* somebody else provides, and a processor to a claim assigned elsewhere.
C11_Witness ==
  /\ resp.op \in SingleWrites /\ resp.code = 404
  /\ resp.before[resp.claim].exists
  /\ resp.before[resp.claim].organization = "A"
  /\ \/ resp.user = "provA" /\ resp.before[resp.claim].provider # "provA"
     \/ resp.user = "procA" /\ resp.before[resp.claim].assigned_processor # "procA"
  /\ claims = resp.before

\* C12: every PUT, PATCH or DELETE sent by a provider or a patient to a claim
\* of the own organization is answered 403, whether or not the caller
\* provides or owns the claim.
C12_BarredRoleWriteForbidden ==
  (/\ resp.op \in SingleWrites
   /\ User[resp.user].role \in {PROVIDER, PATIENT}
   /\ resp.before[resp.claim].exists
   /\ resp.before[resp.claim].organization = RespOrg(resp))
    => resp.code = 403

\* C13: a user whose role is none of admin, claims processor, provider and
\* patient reads and writes nothing: lists answered to that user are empty,
\* a fetch, update or delete of a single claim is denied and a bulk status
\* update changes no claim.
C13_UnmatchedRoleDenied ==
  (is_authenticated(resp.user) /\ User[resp.user].role \notin Role) =>
    /\ resp.op = "list" => resp.results = {}
    /\ resp.op \in SingleWrites \cup {"retrieve"} =>
         resp.code \in {403, 404} /\ claims = resp.before
    /\ resp.op = "bulk_status_update" => claims = resp.before

StatusChanges(c) ==
  /\ claims[c].exists /\ claims'[c].exists
  /\ claims'[c].status # claims[c].status

LifecycleEdges ==
  { <<SUBMITTED, UNDER_REVIEW>>, <<UNDER_REVIEW, APPROVED>>,
    <<UNDER_REVIEW, REJECTED>>, <<APPROVED, PAID>> }

TaskEdges(task) ==
  IF task = "process_patient_discharge"
  THEN {<<SUBMITTED, APPROVED>>, <<UNDER_REVIEW, APPROVED>>}
  ELSE {<<SUBMITTED, UNDER_REVIEW>>}

C16_RejectedTerminal ==
  [][\A c \in ClaimIds :
       (claims[c].exists /\ claims'[c].exists /\ claims[c].status = REJECTED)
         => claims'[c].status = REJECTED]_vars

\* The job perform_create is to send for a committed patient status row.
ExpectedJob(row) ==
  [task |-> CASE row.status_type = ADMISSION -> "process_patient_admission"
              [] row.status_type = DISCHARGE -> "process_patient_discharge"
              [] row.status_type = TREATMENT_INITIATED -> "process_treatment_initiated"
              [] OTHER -> None,
   patient_id |-> row.patient,
   organization_id |-> row.organization,
   treatment_type |->
     IF row.status_type # TREATMENT_INITIATED THEN None
     ELSE IF row.details = "surgery" THEN "surgery" ELSE "N/A",
   retries |-> 0]

\* C17: a message reaches the broker only in the step that commits one new
\* patient status row, and it is the one message of the job matching the
\* row's status_type, patient and organization; every creation answered 201
\* sends exactly that message when its row is committed; a creation that
\* fails validation or whose transaction is rolled back commits no row and
\* sends nothing.
C17_OneJobAfterCommit ==
  [][/\ Len(queue') > Len(queue) =>
          /\ Len(patient_statuses') = Len(patient_statuses) + 1
          /\ SubSeq(patient_statuses', 1, Len(patient_statuses)) = patient_statuses
          /\ patient_statuses'[Len(patient_statuses')].status_type \in StatusType
          /\ queue' = Append(queue,
                              ExpectedJob(patient_statuses'[Len(patient_statuses')]))
     /\ (patient_statuses' # patient_statuses /\ resp'.code = 201) =>
          /\ Len(patient_statuses') = Len(patient_statuses) + 1
          /\ queue' = Append(queue,
                              ExpectedJob(patient_statuses'[Len(patient_statuses')]))
     /\ (resp'.op = "patient_status_create" /\ resp'.code = 400) =>
          /\ patient_statuses' = patient_statuses /\ queue' = queue
          /\ ~txn'.open
     /\ (txn.open /\ ~txn'.open /\ resp'.code # 201) =>
          patient_statuses' = patient_statuses /\ queue' = queue
     /\ txn'.open => (queue' = queue /\ patient_statuses' = patient_statuses)]_vars

\* A treatment event created inside a transaction has been committed and its
\* one message is in the broker.
C17_Witness ==
  /\ resp.op = "patient_status_create" /\ resp.atomic /\ resp.code = 201
  /\ ~txn.open
  /\ Len(patient_statuses) = 1
  /\ patient_statuses[1].status_type = TREATMENT_INITIATED
  /\ queue = <<ExpectedJob(patient_statuses[1])>>

\* The table a job for patient p of organization o is to leave: the claims of
\* p in o whose status is in from get status to (and a reason, unless None),
\* every other row is as it was.
JobEffect(db, p, o, from, to, reason) ==
  [c \in ClaimIds |->
     IF /\ db[c].exists /\ db[c].patient = p /\ db[c].organization = o
        /\ db[c].status \in from
     THEN [db[c] EXCEPT !.status = to,
                        !.approval_reason = IF reason = None THEN @ ELSE reason]
     ELSE db[c]]

\* C18: the admission job for (P, O) moves every submitted claim of P in O to
\* under_review and leaves every other claim as it was.
C18_AdmissionJobEffect ==
  ran.job.task = "process_patient_admission" =>
    claims = JobEffect(ran.before, ran.job.patient_id, ran.job.organization_id,
                       {SUBMITTED}, UNDER_REVIEW, None)

\* The admission job has moved a submitted claim of the patient and left a
\* rejected claim of the same patient alone.
C18_Witness ==
  /\ ran.job.task = "process_patient_admission" /\ ran.count = 1
  /\ \E c, d \in ClaimIds :
       /\ ran.before[c].patient = ran.job.patient_id
       /\ ran.before[c].status = SUBMITTED /\ claims[c].status = UNDER_REVIEW
       /\ ran.before[d].patient = ran.job.patient_id
       /\ ran.before[d].status = REJECTED /\ claims[d].status = REJECTED

\* C19: the discharge job for (P, O) sets every submitted or under_review
\* claim of P in O to approved with approval_reason "Auto-finalize" and
\* leaves every other claim, status and approval_reason, as it was.
C19_DischargeJobEffect ==
  ran.job.task = "process_patient_discharge" =>
    claims = JobEffect(ran.before, ran.job.patient_id, ran.job.organization_id,
                       {SUBMITTED, UNDER_REVIEW}, APPROVED, "Auto-finalize")

\* The discharge job has approved an under_review claim of the patient and
\* left a claim of the same patient that a processor approved by hand alone.
C19_Witness ==
  /\ ran.job.task = "process_patient_discharge" /\ ran.count = 1
  /\ \E c, d \in ClaimIds :
       /\ ran.before[c].patient = ran.job.patient_id
       /\ ran.before[c].status = UNDER_REVIEW
       /\ claims[c].status = APPROVED
       /\ claims[c].approval_reason = "Auto-finalize"
       /\ ran.before[d].patient = ran.job.patient_id
       /\ ran.before[d].status = APPROVED
       /\ ran.before[d].approval_reason = "manual"
       /\ claims[d] = ran.before[d]

\* The treatment types a message carries.
TreatmentTypes == {"surgery", "N/A"}

\* C20: the treatment job for (P, O) moves exactly the submitted claims of P
\* in O to under_review, and run on the same table with any other
\* treatment_type it leaves the same table.
C20_TreatmentTypeIrrelevant ==
  ran.job.task = "process_treatment_initiated" =>
    /\ claims = JobEffect(ran.before, ran.job.patient_id, ran.job.organization_id,
                          {SUBMITTED}, UNDER_REVIEW, None)
    /\ \A tt \in TreatmentTypes, tv \in {None, ran.job.organization_id} :
         run_task(ran.before, tv, [ran.job EXCEPT !.treatment_type = tt]).db = claims

\* The treatment job of an event without a treatment_type has moved a
\* submitted claim of the patient.
C20_Witness ==
  /\ ran.job.task = "process_treatment_initiated"
  /\ ran.job.treatment_type = "N/A" /\ ran.count >= 1
  /\ \E c \in ClaimIds :
       /\ ran.before[c].patient = ran.job.patient_id
       /\ ran.before[c].status = SUBMITTED /\ claims[c].status = UNDER_REVIEW

\* Claim c of table db is a claim of patient p in organization o.
JobTarget(db, c, p, o) ==
  db[c].exists /\ db[c].patient = p /\ db[c].organization = o

\* C21: a job run for (P, O) leaves every claim of another patient and every
\* claim of another organization as it was, and so does the same task run on
\* the same table under any ambient tenant: none, O or another organization.
C21_JobLeavesOtherClaims ==
  ran # NoRun =>
    \A c \in ClaimIds :
      ~JobTarget(ran.before, c, ran.job.patient_id, ran.job.organization_id) =>
        /\ claims[c] = ran.before[c]
        /\ \A tv \in Orgs \cup {None} :
             run_task(ran.before, tv, ran.job).db[c] = ran.before[c]

\* An admission job has moved the patient's submitted claim while a submitted
\* claim of another patient of the organization stayed submitted.
C21_Witness ==
  /\ ran.job.task = "process_patient_admission" /\ ran.count = 1
  /\ \E c, d \in ClaimIds :
       /\ JobTarget(ran.before, c, ran.job.patient_id, ran.job.organization_id)
       /\ ran.before[c].status = SUBMITTED /\ claims[c].status = UNDER_REVIEW
       /\ ran.before[d].exists
       /\ ran.before[d].organization = ran.job.organization_id
       /\ ran.before[d].patient # ran.job.patient_id
       /\ ran.before[d].status = SUBMITTED /\ claims[d] = ran.before[d]

\* C22: when a job has run, running the same task again with the same
\* arguments on the table it left, before any other operation, selects no
\* row (the count it logs is 0) and leaves the table as the first run left
\* it, under any ambient tenant.
C22_JobIdempotent ==
  ran # NoRun =>
    \A tv \in Orgs \cup {None} :
      /\ run_task(claims, tv, ran.job).count = 0
      /\ run_task(claims, tv, ran.job).db = claims

\* A discharge job has approved both a submitted and an under_review claim of
\* the patient; run again it would find none of them.
C22_Witness ==
  /\ ran.job.task = "process_patient_discharge" /\ ran.count = 2
  /\ \E c, d \in ClaimIds :
       /\ ran.before[c].status = SUBMITTED /\ claims[c].status = APPROVED
       /\ ran.before[d].status = UNDER_REVIEW /\ claims[d].status = APPROVED
  /\ run_task(claims, None, ran.job).count = 0

\* C23: a message the broker holds was retried at most max_retries (3)
\* times, and every message leaves the broker: whenever the broker holds a
\* message, it later holds none, each job having completed or having been
\* given up after its last retry failed.
C23_RetriesBounded ==
  /\ [](\A i \in 1..Len(queue) : queue[i].retries <= max_retries)
  /\ (queue # <<>>) ~> (queue = <<>>)

\* A message is in its third retry: its job failed three times so far.
C23_Witness ==
  /\ Len(queue) = 1 /\ queue[1].retries = max_retries
  /\ queue[1].task = "process_patient_discharge"

\* Worker t leaves the atomic block of its bulk status update in this step
\* with status code.
BulkEnds(t, code) ==
  work[t].pc = "loop" /\ work'[t].pc = "respond" /\ work'[t].code = code

\* C24: when saving a row fails in a bulk status update, rows saved before
\* it or not, the step that ends the request leaves every row the request
\* wrote as the request fetched it and every other row as it is: no status
\* is changed by that request.
C24_BulkFailureRollsBack ==
  [][\A t \in Workers :
       BulkEnds(t, 500) =>
         \A c \in ClaimIds :
           IF c \in work[t].written
           THEN claims'[c] = work[t].fetched[c]
           ELSE claims'[c] = claims[c]]_vars

\* A bulk approval of two submitted claims failed on the second save after
\* the first was saved: the request ended in 500 and both are submitted.
C24_Witness ==
  \E t \in Workers :
    /\ work[t].pc = "respond" /\ work[t].code = 500
    /\ work[t].updated_count = 1 /\ work[t].status = APPROVED
    /\ work[t].claim_ids = ClaimIds
    /\ \A x \in Workers \ {t} : work[x].pc = "idle"
    /\ \A c \in ClaimIds : claims[c].exists /\ claims[c].status = SUBMITTED

\* The table as it is without what the open transaction of worker t wrote.
WithoutTxn(t) == transaction_rollback(claims, work[t])

\* C25: a bulk status update that commits, whatever other bulk status
\* updates run concurrently, has done what the same request does when it
\* runs alone at its commit on the table without its own writes: same rows
\* written, same updated_count, same errors; a claim another update has set
\* to approved or paid before is skipped with an error entry.
C25_ConcurrentBulkSerialized ==
  [][\A t \in Workers :
       BulkEnds(t, 200) =>
         LET serial == bulk_status_update(
                         WithoutTxn(t), get_current_tenant(tenant, t),
                         work[t].user, work[t].claim_ids, work[t].status)
         IN  /\ claims' = serial.db
             /\ work'[t].updated_count = serial.updated_count
             /\ work'[t].errors = serial.errors]_vars

\* Two bulk status updates of the same claim overlapped: the one that began
\* while the other was inside its transaction has skipped the claim the
\* other approved, with an error entry.
C25_Witness ==
  \E t \in Workers, x \in Workers :
    /\ x # t
    /\ work[x].pc = "respond" /\ work[x].code = 200 /\ work[x].status = APPROVED
    /\ work[x].updated_count >= 1
    /\ work[t].pc = "respond" /\ work[t].code = 200 /\ work[t].overlap
    /\ work[t].status = REJECTED /\ work[t].updated_count = 0
    /\ work[t].claim_ids = {1} /\ 1 \in work[x].claim_ids
    /\ work[t].errors = <<[claim |-> 1, status |-> APPROVED]>>
    /\ claims[1].status = APPROVED

\* C26: set_current_tenant and reset_current_tenant called on one thread
\* leave the value get_current_tenant returns on every other thread as it
\* is, and under every interleaving of concurrent requests a step of one
\* worker leaves the ambient tenant of the other workers unchanged.
C26_TenantThreadLocal ==
  /\ [](\A t \in Workers : \A x \in Workers \ {t} :
          /\ get_current_tenant(reset_current_tenant(tenant, t), x)
               = get_current_tenant(tenant, x)
          /\ \A org \in Orgs :
               /\ get_current_tenant(set_current_tenant(tenant, t, org).tenants, x)
                    = get_current_tenant(tenant, x)
               /\ get_current_tenant(set_current_tenant(tenant, t, org).tenants, t)
                    = org)
  /\ [][\A t \in Workers :
          work'[t] # work[t] =>
            \A x \in Workers \ {t} :
              get_current_tenant(tenant', x) = get_current_tenant(tenant, x)]_vars

\* Two workers are inside the requests of users of different organizations,
\* each with its user's organization as ambient tenant.
C26_Witness ==
  \E t \in Workers, x \in Workers :
    /\ work[t].pc = "loop" /\ work[t].user = "adminA"
    /\ work[x].pc = "loop" /\ work[x].user = "adminB"
    /\ get_current_tenant(tenant, t) = "A"
    /\ get_current_tenant(tenant, x) = "B"

\* C27: under an ambient tenant the manager returns exactly the rows of that
\* organization, under none all rows, for the claims, the patients and the
\* patient status rows; the history of a patient answered to a user is
\* exactly the patient's rows of the user's organization and is empty for a
\* patient of another organization; and the list answered to an admin
\* without filter parameters is exactly the claims of the organization.
C27_TenantScopedQuery ==
  /\ \A tv \in Orgs :
       /\ \A c \in ClaimIds :
            c \in TenantManager_get_queryset(claims, tv)
              <=> (claims[c].exists /\ claims[c].organization = tv)
       /\ \A p \in PatientIds :
            p \in TenantManager_patients(tv) <=> Patient[p].organization = tv
       /\ \A i \in 1..Len(patient_statuses) :
            i \in TenantManager_patient_statuses(patient_statuses, tv)
              <=> patient_statuses[i].organization = tv
  /\ TenantManager_get_queryset(claims, None) = {c \in ClaimIds : claims[c].exists}
  /\ TenantManager_patients(None) = PatientIds
  /\ TenantManager_patient_statuses(patient_statuses, None) = 1..Len(patient_statuses)
  /\ resp.op = "history" =>
       /\ \A i \in 1..Len(patient_statuses) :
            i \in resp.results
              <=> /\ patient_statuses[i].patient = resp.params.patient_id
                  /\ patient_statuses[i].organization = RespOrg(resp)
       /\ Patient[resp.params.patient_id].organization # RespOrg(resp)
            => resp.results = {}
  /\ (resp.op = "list" /\ resp.params = NoParams /\ User[resp.user].role = ADMIN) =>
       resp.results = {c \in ClaimIds :
                         claims[c].exists /\ claims[c].organization = RespOrg(resp)}

\* A user of A asked for the history of a patient of B that has a status
\* row, and got no row.
C27_Witness ==
  /\ resp.op = "history" /\ RespOrg(resp) = "A" /\ resp.results = {}
  /\ resp.params.patient_id = "pB1"
  /\ \E i \in 1..Len(patient_statuses) :
       /\ patient_statuses[i].patient = "pB1"
       /\ patient_statuses[i].organization = "B"
  /\ \E c \in ClaimIds : claims[c].exists /\ claims[c].organization = "B"

C29_CreatedClaimInCallersOrganization ==
  resp.op = "create" =>
    /\ \A c \in ClaimIds :
         (claims[c].exists /\ ~resp.before[c].exists) =>
           claims[c].organization = RespOrg(resp)
    /\ resp.code = 201 =>
         \E c \in resp.results : claims[c].exists /\ ~resp.before[c].exists

\* A user of A has created a claim from a body that names organization B;
\* the claim belongs to A.
C29_Witness ==
  /\ resp.op = "create" /\ resp.code = 201 /\ RespOrg(resp) = "A"
  /\ resp.data.organization = "B"
  /\ \E c \in resp.results : claims[c].exists /\ claims[c].organization = "A"

RemoveAt(s, i) == SubSeq(s, 1, i - 1) \o SubSeq(s, i + 1, Len(s))

\* Bodies of PUT and PATCH /patient-status/<pk>/; None is a body without
\* that key.
PatientStatusPatches ==
  { [NoEvent EXCEPT !.details = "surgery"],
    [NoEvent EXCEPT !.status_type = DISCHARGE],
    [NoEvent EXCEPT !.patient = "pB1"] }

\* ModelViewSet.get_object of PatientStatusViewSet: the row is looked up in
\* get_queryset (the tenant manager); permission_classes holds IsAuthenticated
\* alone, which has no object check. 0 when found, else the status code.
PatientStatusViewSet_get_object(ps, tv, pk) ==
  IF pk \in TenantManager_patient_statuses(ps, tv) THEN 0 ELSE 404

\* PatientStatusSerializer.is_valid on PUT (every writable field is required)
\* and on PATCH (partial: a key may be absent).
PatientStatusSerializer_is_valid_update(tv, data, partial) ==
  IF partial
  THEN /\ data.patient = None \/ data.patient \in TenantManager_patients(tv)
       /\ data.status_type = None \/ data.status_type \in StatusType
  ELSE PatientStatusSerializer_is_valid(tv, data)

\* PatientStatusSerializer.save on an existing row: organization and
\* created_at are read only, TenantModel.save keeps the organization.
PatientStatusSerializer_update(row, tv, data) ==
  [row EXCEPT !.patient = IF data.patient = None THEN @ ELSE data.patient,
              !.status_type = IF data.status_type = None THEN @ ELSE data.status_type,
              !.details = IF data.details = None THEN @ ELSE data.details,
              !.organization = TenantModel_save_organization(@, tv)]

\* ModelViewSet.update and partial_update of PatientStatusViewSet:
\* perform_update is not overridden, the row is saved and no job is sent.
patient_status_update(ps, q, tv, pk, data, partial) ==
  IF PatientStatusViewSet_get_object(ps, tv, pk) # 0
  THEN StatusOutcome(ps, NoTxn, q, 404)
  ELSE IF ~PatientStatusSerializer_is_valid_update(tv, data, partial)
  THEN StatusOutcome(ps, NoTxn, q, 400)
  ELSE StatusOutcome([ps EXCEPT ![pk] = PatientStatusSerializer_update(@, tv, data)],
                     NoTxn, q, 200)

\* ModelViewSet.destroy of PatientStatusViewSet: instance.delete().
patient_status_destroy(ps, q, tv, pk) ==
  IF PatientStatusViewSet_get_object(ps, tv, pk) # 0
  THEN StatusOutcome(ps, NoTxn, q, 404)
  ELSE StatusOutcome(RemoveAt(ps, pk), NoTxn, q, 204)

\* A worker serves a request on a detail route of the patient status
\* endpoint; claim holds the primary key of the path.
ServeStatus(t, u, request, out) ==
  /\ resp = NoResp /\ ran = NoRun
  /\ LET m == MiddlewareEnter(tenant, t, u)
     IN  /\ tenant' = m.tenants
         /\ patient_statuses' = out.ps
         /\ resp' = [request EXCEPT !.thread = t, !.user = u, !.token = m.token,
                                    !.before = claims, !.code = out.code]
  /\ UNCHANGED <<claims, txn, queue, ran, work>>

PatientStatusUpdate(t, u, pk, data, partial) ==
  ServeStatus(t, u,
              [NoResp EXCEPT !.op = "patient_status_update",
                             !.method = IF partial THEN "PATCH" ELSE "PUT",
                             !.claim = pk, !.event = data],
              patient_status_update(patient_statuses, queue, ViewTenant(t, u),
                                    pk, data, partial))

PatientStatusDestroy(t, u, pk) ==
  ServeStatus(t, u,
              [NoResp EXCEPT !.op = "patient_status_destroy", !.method = "DELETE",
                             !.claim = pk],
              patient_status_destroy(patient_statuses, queue, ViewTenant(t, u), pk))

\* The patient status endpoint with every route the router registers for
\* the ModelViewSet: create, update, partial update, delete and history. A
\* row is created while the broker holds fewer than MaxStatuses messages.
EventUsers == {"adminA", "provA", "patA", "adminB"}

EventNext ==
  \/ (Idle /\ Len(queue) < MaxStatuses)
       /\ \E t \in {FirstThread}, u \in EventUsers, data \in PatientStatusBodies, atomic \in BOOLEAN :
            PatientStatusCreate(t, u, data, atomic)
  \/ Commit
  \/ Rollback
  \/ Idle /\ \E i \in 1..MaxStatuses, tv \in Orgs \cup {None} : RunJob(i, tv)
  \/ JobDone
  \/ Idle /\ \E t \in {FirstThread}, u \in EventUsers, pk \in 1..MaxStatuses, data \in PatientStatusBodies :
       PatientStatusUpdate(t, u, pk, data, FALSE)
  \/ Idle /\ \E t \in {FirstThread}, u \in EventUsers, pk \in 1..MaxStatuses, data \in PatientStatusPatches :
       PatientStatusUpdate(t, u, pk, data, TRUE)
  \/ Idle /\ \E t \in {FirstThread}, u \in EventUsers, pk \in 1..MaxStatuses :
       PatientStatusDestroy(t, u, pk)
  \/ Idle /\ \E t \in {FirstThread}, u \in EventUsers, p \in PatientIds : History(t, u, p)
  \/ ReturnResponse

EventSpec == Init /\ [][EventNext]_vars

\* C31: the committed patient status rows are an append-only log: every row
\* the table holds is still there, with every field as it was, after any
\* step of the API.
C31_PatientStatusAppendOnly ==
  [][/\ Len(patient_statuses') >= Len(patient_statuses)
     /\ \A i \in 1..Len(patient_statuses) :
          patient_statuses'[i] = patient_statuses[i]]_vars

\* C32: a bulk status update whose body has no claim_ids (the key is missing
\* or the list is empty) or no status is answered 400 without entering the
\* transaction: it selects and locks no row, writes none, and the table is
\* the same when the response leaves; every other body enters the
\* transaction.
C32_BulkMissingFieldsRejected ==
  /\ [](\A t \in Workers :
          work[t].code = 400 =>
            /\ work[t].pc = "respond"
            /\ work[t].claim_ids = {} \/ work[t].status = None
            /\ work[t].locked = {} /\ work[t].written = {} /\ work[t].rows = <<>>
            /\ work[t].updated_count = 0)
  /\ [][\A t \in Workers :
          /\ (work[t].pc = "idle" /\ work'[t].pc # "idle") =>
               IF work'[t].claim_ids = {} \/ work'[t].status = None
               THEN work'[t].pc = "respond" /\ work'[t].code = 400 /\ claims' = claims
               ELSE work'[t].pc = "select" /\ work'[t].code = 0
          /\ (work[t].code = 400 /\ work'[t] # work[t]) =>
               work'[t] = NoWork /\ claims' = claims]_vars

\* A bulk status update without a status was answered 400 while the table
\* holds a submitted claim of the caller's organization that it names.
C32_Witness ==
  \E t \in Workers :
    /\ work[t].pc = "respond" /\ work[t].code = 400
    /\ work[t].claim_ids = {1} /\ work[t].status = None
    /\ claims[1].exists /\ claims[1].status = SUBMITTED
    /\ claims[1].organization = User[work[t].user].organization

\* ------------- PATCH /claims/<pk>/ statement by statement (views.py, DRF)
\* UpdateModelMixin.partial_update up to serializer.is_valid: the middleware
\* sets the tenant, get_object fetches the row with a plain SELECT (no lock
\* is taken, rows another transaction wrote are seen as committed) and the
\* serializer validates the body against the fetched instance.
PatchRead(t, u, pk, data, st) ==
  /\ work[t].pc = "idle" /\ resp = NoResp
  /\ LET m == MiddlewareEnter(tenant, t, u)
         tv == get_current_tenant(m.tenants, t)
         view == ReadView(work, ran, claims, t)
         denied == get_object(view, tv, u, "PATCH", NoParams, pk)
         valid == IF get_serializer_class("PATCH", st)
                  THEN ClaimStatusUpdateSerializer_is_valid(view[pk], u, st)
                  ELSE ClaimSerializer_is_valid(tv, data)
         begun == [NoWork EXCEPT !.user = u, !.token = m.token, !.claim = pk,
                                 !.data = data, !.status = st]
     IN  /\ tenant' = m.tenants
         /\ work' =
              [work EXCEPT ![t] =
                 IF denied # 0
                 THEN [begun EXCEPT !.pc = "respond", !.code = denied]
                 ELSE IF ~valid
                 THEN [begun EXCEPT !.pc = "respond", !.code = 400]
                 ELSE [begun EXCEPT !.pc = "save",
                                    !.fetched = [@ EXCEPT ![pk] = view[pk]]]]
  /\ UNCHANGED <<claims, resp, jobvars>>

\* serializer.save(): the validated attributes are set on the fetched
\* instance and instance.save() writes every column of the row (an UPDATE by
\* primary key, which waits while another transaction holds the row) and
\* commits.
PatchSave(t) ==
  /\ work[t].pc = "save"
  /\ LET pk == work[t].claim
         instance == work[t].fetched[pk]
         tv == get_current_tenant(tenant, t)
     IN  /\ ~LockedByOther(work, ran, t, pk)
         /\ claims' =
              [claims EXCEPT ![pk] =
                 IF get_serializer_class("PATCH", work[t].status)
                 THEN ClaimStatusUpdateSerializer_update(
                        instance, tv, work[t].status, work[t].data)
                 ELSE ClaimSerializer_update(instance, tv, work[t].data)]
         /\ work' = [work EXCEPT ![t] =
                       [@ EXCEPT !.pc = "respond", !.code = 200,
                                 !.fetched = NoWork.fetched]]
  /\ UNCHANGED <<tenant, resp, jobvars>>

\* --------------------------- the tasks statement by statement (tasks.py)
\* The rows the UPDATE of the task of a message matches in table db.
task_selected(db, tv, job) ==
  {c \in ClaimIds : run_task(db, tv, job).db[c] # db[c]}

\* A Celery worker takes message i and enters transaction.atomic; the UPDATE
\* statement starts on the rows that match its WHERE clause in the committed
\* table. The worker's thread has no ambient tenant.
JobBegin(i) ==
  /\ resp = NoResp /\ ran = NoRun
  /\ i \in 1..Len(queue)
  /\ LET view == ReadView(work, NoRun, claims, 0)
     IN  ran' = [NoRun EXCEPT !.job = queue[i], !.before = view, !.pc = "update",
                              !.rows = Rows(task_selected(view, None, queue[i]))]
  /\ queue' = SubSeq(queue, 1, i - 1) \o SubSeq(queue, i + 1, Len(queue))
  /\ UNCHANGED <<claims, tenant, resp, patient_statuses, txn, work>>

\* The UPDATE reaches its next row: it waits while another transaction holds
\* the row, then locks it, checks the WHERE clause on the row as committed
\* (read committed) and writes it when it still matches.
JobUpdateRow ==
  /\ ran.pc = "update" /\ ran.rows # <<>>
  /\ LET c == Head(ran.rows)
         out == run_task(claims, None, ran.job)
     IN  /\ ~LockedByOther(work, NoRun, 0, c)
         /\ IF c \in task_selected(claims, None, ran.job)
            THEN /\ claims' = [claims EXCEPT ![c] = out.db[c]]
                 /\ ran' = [ran EXCEPT !.rows = Tail(@),
                                       !.written = @ \cup {c},
                                       !.undo = [@ EXCEPT ![c] = claims[c]],
                                       !.count = @ + 1]
            ELSE /\ UNCHANGED claims
                 /\ ran' = [ran EXCEPT !.rows = Tail(@)]
  /\ UNCHANGED <<tenant, resp, patient_statuses, txn, queue, work>>

\* The UPDATE is over, the count is logged and the atomic block commits.
JobCommit ==
  /\ ran.pc = "update" /\ ran.rows = <<>>
  /\ ran' = [ran EXCEPT !.pc = "done", !.written = {}, !.undo = NoRun.undo]
  /\ UNCHANGED <<claims, tenant, resp, patient_statuses, txn, queue, work>>

\* The task raises inside the atomic block (the connection is lost, a lock
\* wait times out): the transaction is rolled back and autoretry decides
\* whether the message is sent again.
JobRaises ==
  /\ ran.pc = "update"
  /\ claims' = transaction_rollback(claims, ran)
  /\ queue' = queue \o autoretry(ran.job)
  /\ ran' = NoRun
  /\ UNCHANGED <<tenant, resp, patient_statuses, txn, work>>

\* The claims API, the patient status endpoint and the jobs with the steps
\* of PATCH requests, bulk status updates and jobs interleaved. The claims
\* and one patient status row are created while no other request is in
\* flight (the one message is delivered up to four times); of
\* the two concurrent workers one serves the PATCH requests and the other
\* the bulk status updates.
RacePatch ==
  [patient |-> "pA1", provider |-> "provA", assigned_processor |-> "procA",
   amount |-> 1, approval_reason |-> None, organization |-> None, status |-> None]
RaceBulkBodies == {[claim_ids |-> ClaimIds, status |-> s] : s \in {APPROVED, REJECTED}}
PatchWorker == CHOOSE t \in Workers : \A x \in Workers : t <= x
BulkWorker == CHOOSE t \in Workers : \A x \in Workers : t >= x
RaceEvents ==
  {e \in PatientStatusBodies :
     e.patient = "pA1" /\ e.status_type \in {ADMISSION, DISCHARGE}}

RaceNext ==
  \/ (Idle /\ AllIdle) /\ \E t \in {FirstThread}, data \in ConcBodies : Create(t, "adminA", data)
  \/ (Idle /\ AllIdle /\ patient_statuses = <<>>)
       /\ \E t \in {FirstThread}, data \in RaceEvents :
            PatientStatusCreate(t, "adminA", data, FALSE)
  \/ ReturnResponse
  \/ \E t \in {PatchWorker}, pk \in ClaimIds : PatchRead(t, "procA", pk, RacePatch, None)
  \/ \E t \in {PatchWorker}, pk \in ClaimIds : PatchRead(t, "procA", pk, NoBody, REJECTED)
  \/ \E t \in Workers : PatchSave(t)
  \/ \E t \in {BulkWorker}, body \in RaceBulkBodies : BulkBegin(t, "adminA", body)
  \/ \E t \in Workers : BulkSelect(t)
  \/ \E t \in Workers : BulkSave(t)
  \/ \E t \in Workers : BulkCommit(t)
  \/ \E t \in Workers : BulkReturn(t)
  \/ \E i \in 1..MaxStatuses : JobBegin(i)
  \/ JobUpdateRow
  \/ JobCommit
  \/ JobRaises
  \/ JobDone

RaceSpec == ConcInit /\ [][RaceNext]_vars

\* The table as committed: what the open transactions of the workers and of
\* the running job wrote is not in it.
Committed(w, r, db) == ReadView(w, r, db, 0)

\* The status the task of a message writes.
TaskTarget(task) ==
  IF task = "process_patient_discharge" THEN APPROVED ELSE UNDER_REVIEW

\* C33: a job writes inside one transaction: while it is in the transaction
\* the committed rows it wrote are as they were; when it commits, every row
\* it wrote has the new status and the count it logs is their number; when
\* it fails, every row it wrote is as it was before the write and the
\* committed table is unchanged. No state in which only part of the rows is
\* written is ever committed.
C33_JobAtomic ==
  [][/\ (ran.pc = "update" /\ ran'.pc = "update") =>
          \A c \in ran'.written :
            Committed(work', ran', claims')[c] = Committed(work, ran, claims)[c]
     /\ (ran.pc = "update" /\ ran'.pc = "done") =>
          /\ claims' = claims
          /\ ran'.count = Cardinality(ran.written)
          /\ \A c \in ran.written :
               /\ claims'[c].status = TaskTarget(ran.job.task)
               /\ ran.undo[c].status # TaskTarget(ran.job.task)
     /\ (ran.pc = "update" /\ ran' = NoRun) =>
          /\ \A c \in ClaimIds :
               claims'[c] = IF c \in ran.written THEN ran.undo[c] ELSE claims[c]
          /\ Committed(work', ran', claims') = Committed(work, ran, claims)]_vars

\* A discharge job that failed once is delivered again and has written one
\* of the two claims it selected; the committed table shows both as the job
\* found them.
C33_Witness ==
  /\ ran.pc = "update" /\ ran.job.task = "process_patient_discharge"
  /\ ran.job.retries >= 1
  /\ Cardinality(ran.written) = 1 /\ Len(ran.rows) = 1
  /\ \A c \in ClaimIds :
       /\ ran.before[c].exists /\ ran.before[c].status \in {SUBMITTED, UNDER_REVIEW}
       /\ Committed(work, ran, claims)[c] = ran.before[c]
  /\ \E c \in ran.written : claims[c].status = APPROVED

\* C34: whatever the interleaving of PATCH requests with a discharge job or
\* a bulk status update, a claim whose committed status is approved or paid
\* keeps that committed status in every later step.
C34_FrozenUnderInterleaving ==
  [][\A c \in ClaimIds :
       (/\ Committed(work, ran, claims)[c].exists
        /\ Committed(work, ran, claims)[c].status \in Frozen)
         => Committed(work', ran', claims')[c].status
              = Committed(work, ran, claims)[c].status]_vars

\* The tasks a message can name.
Tasks ==
  {"process_patient_admission", "process_patient_discharge",
   "process_treatment_initiated"}

\* Row c of table db after one status operation applied to db: a PATCH with
\* a status sent by any user, a bulk status update sent by any user, or the
\* run of a job for any patient and organization under any ambient tenant.
AfterStatusOperation(db, c) ==
  {update(db, User[u].organization, u, "PATCH", c, d, st).db[c] :
     u \in UserIds, st \in Status, d \in {NoBody, ManualPatch}}
  \cup {bulk_status_update(db, User[u].organization, u, b.claim_ids, b.status).db[c] :
          u \in UserIds, b \in BulkBodies}
  \cup {run_task(db, tv, [task |-> k, patient_id |-> p, organization_id |-> o,
                          treatment_type |-> "N/A", retries |-> 0]).db[c] :
          k \in Tasks, p \in PatientIds, o \in Orgs, tv \in Orgs \cup {None}}

\* C35: paid is reachable from approved: for every claim that is approved
\* there is a status PATCH, a bulk status update or a job that moves it on,
\* to paid or to a status from which a further operation can make it paid.
C35_PaidReachableFromApproved ==
  \A c \in ClaimIds :
    (claims[c].exists /\ claims[c].status = APPROVED) =>
      \E row \in AfterStatusOperation(claims, c) :
        row.exists /\ row.status # APPROVED

\* C36: every claim a create request adds is submitted, whether or not the
\* body carries a status key and whatever status it names.
C36_CreatedClaimSubmitted ==
  resp.op = "create" =>
    /\ \A c \in ClaimIds :
         (claims[c].exists /\ ~resp.before[c].exists) => claims[c].status = SUBMITTED
    /\ resp.code = 201 =>
         \E c \in resp.results :
           /\ ~resp.before[c].exists
           /\ claims[c] = [ClaimSerializer_create(RespOrg(resp), resp.data)
                             EXCEPT !.status = SUBMITTED]

\* A create request whose body names the status paid was answered 201 and
\* the new claim is submitted.
C36_Witness ==
  /\ resp.op = "create" /\ resp.code = 201 /\ resp.data.status = PAID
  /\ \E c \in resp.results :
       /\ ~resp.before[c].exists /\ claims[c].exists
       /\ claims[c].status = SUBMITTED

OrganizationBodies == {b \in StoreBodies : b.organization # None}
WholeTableBodies == {b \in BulkBodies : b.claim_ids = ClaimIds /\ b.status = APPROVED}

\* A user and an ambient tenant that is not the user's organization.
OtherTenant ==
  {x \in [u : StoreUsers, tv : Orgs \cup {None}] : x.tv # User[x.u].organization}

\* The tables one operation makes of table db: a PUT whose body names an
\* organization, a PATCH with a status, a bulk status update of every claim,
\* each sent by a user of either organization and served under an ambient
\* tenant that is not the user's organization (none, or another one), or
\* the run of a job of a patient under any ambient tenant.
AfterOperation(db) ==
  {update(db, x.tv, x.u, "PUT", c, d, None).db :
     x \in OtherTenant, c \in ClaimIds, d \in OrganizationBodies}
  \cup {update(db, x.tv, x.u, "PATCH", c, ForeignPatch, UNDER_REVIEW).db :
          x \in OtherTenant, c \in ClaimIds}
  \cup {bulk_status_update(db, x.tv, x.u, b.claim_ids, b.status).db :
          x \in OtherTenant, b \in WholeTableBodies}
  \cup {run_task(db, tv, [task |-> k, patient_id |-> p,
                          organization_id |-> Patient[p].organization,
                          treatment_type |-> "N/A", retries |-> 0]).db :
          k \in Tasks, p \in PatientIds, tv \in Orgs \cup {None}}

\* No operation on table db, and no serializer save of a row of db under
\* any ambient tenant (none, the claim's own, another one), gives a claim of
\* db another organization.
OrganizationKept(db) ==
  /\ \A after \in AfterOperation(db) :
       \A c \in ClaimIds :
         (db[c].exists /\ after[c].exists)
           => after[c].organization = db[c].organization
  /\ \A tv \in Orgs \cup {None}, c \in ClaimIds, d \in OrganizationBodies :
       db[c].exists =>
         /\ ClaimSerializer_update(db[c], tv, d).organization = db[c].organization
         /\ ClaimStatusUpdateSerializer_update(db[c], tv, PAID, d).organization
              = db[c].organization

\* C38: the organization of a claim never changes: no step of a request of
\* a user of either organization (create, PUT, PATCH, status PATCH, with
\* bodies that name organization A or B) changes the organization of a
\* claim that exists; and from every table reached (the first one, and the
\* one after every step that changes the table), no PUT, status PATCH or
\* bulk status update served under a tenant that is not the sender's, no job
\* run and no serializer save of a row under any ambient tenant gives an
\* existing claim another organization.
C38_OrganizationNeverChanges ==
  /\ OrganizationKept(claims)
  /\ [][/\ \A c \in ClaimIds :
            (claims[c].exists /\ claims'[c].exists)
              => claims'[c].organization = claims[c].organization
        /\ claims' # claims => OrganizationKept(claims')]_vars

\* A PUT whose body names organization B was answered 200 for a claim of A:
\* the claim was changed and is still A's.
C38_Witness ==
  /\ resp.op = "update" /\ resp.code = 200 /\ resp.data.organization = "B"
  /\ resp.before[resp.claim].organization = "A"
  /\ claims[resp.claim].organization = "A"
  /\ claims[resp.claim] # resp.before[resp.claim]

\* A message of task k for patient p and organization o.
TaskMessage(k, p, o) ==
  [task |-> k, patient_id |-> p, organization_id |-> o,
   treatment_type |-> "N/A", retries |-> 0]

\* Table db after the run of task first and then of task second for patient
\* p and organization o, both under ambient tenant tv.
RunInOrder(db, tv, first, second, p, o) ==
  run_task(run_task(db, tv, TaskMessage(first, p, o)).db, tv, TaskMessage(second, p, o)).db

\* The claim rows the API can have stored: what a create of a body makes in
\* the organization of the body's patient, with any status and with or
\* without the approval reason of a later status PATCH.
StoredRows ==
  {[ClaimSerializer_create(Patient[b.patient].organization, b)
      EXCEPT !.status = s, !.approval_reason = r] :
     b \in {x \in Bodies : ClaimSerializer_is_valid(Patient[x.patient].organization, x)},
     s \in Status, r \in {None, "manual"}}

\* The two jobs on every table: the table starts as any combination of
\* stored rows and free slots, a patient status event of a patient is
\* posted, and the Celery worker runs its task.
CommuteInit ==
  /\ claims \in [ClaimIds -> StoredRows \cup {NoClaim}]
  /\ tenant = [t \in Threads |-> None]
  /\ resp = NoResp
  /\ patient_statuses = <<>>
  /\ txn = NoTxn
  /\ queue = <<>>
  /\ ran = NoRun
  /\ work = [t \in Workers |-> NoWork]

CommuteNext ==
  \/ (Idle /\ patient_statuses = <<>>)
       /\ \E t \in {FirstThread}, data \in RaceEvents :
            PatientStatusCreate(t, "adminA", data, FALSE)
  \/ ReturnResponse
  \/ Idle /\ \E i \in 1..MaxStatuses, tv \in Orgs \cup {None} : RunJob(i, tv)
  \/ JobDone

CommuteSpec == CommuteInit /\ [][CommuteNext]_vars

\* On table db, Admission then Discharge and Discharge then Admission, for
\* any patient and organization and run under the tenant a worker can have
\* (none, or the organization of the message), end in the same table.
AdmissionDischargeCommute(db) ==
  \A p \in PatientIds, o \in Orgs :
    \A tv \in {None, o} :
      RunInOrder(db, tv, "process_patient_admission", "process_patient_discharge", p, o)
        = RunInOrder(db, tv, "process_patient_discharge", "process_patient_admission", p, o)

\* C39: the Admission job and the Discharge job for the same patient and
\* organization commute: on every table, whatever the combination of claim
\* statuses (the first table, and the one after every step that changes the
\* table), the two orders of running them, nothing in between, end with the
\* same statuses and approval reasons on every claim.
C39_AdmissionDischargeCommute ==
  /\ AdmissionDischargeCommute(claims)
  /\ [][claims' # claims => AdmissionDischargeCommute(claims')]_vars

\* The Discharge job has run on a table with a submitted and an under
\* review claim of its patient, one of them with a manual approval reason:
\* Admission alone would have changed the table to another one, and the
\* table now is the one Admission then Discharge gives, both claims approved
\* with the reason of the Discharge job.
C39_Witness ==
  /\ ran.pc = "done" /\ ran.job.task = "process_patient_discharge"
  /\ LET p == ran.job.patient_id
         o == ran.job.organization_id
         admitted == run_task(ran.before, o, TaskMessage("process_patient_admission", p, o)).db
     IN  /\ \E c, d \in ClaimIds :
              /\ ran.before[c].exists /\ ran.before[c].patient = p
              /\ ran.before[d].exists /\ ran.before[d].patient = p
              /\ ran.before[c].status = SUBMITTED
              /\ ran.before[d].status = UNDER_REVIEW
              /\ ran.before[d].approval_reason = "manual"
              /\ claims[c].status = APPROVED /\ claims[d].status = APPROVED
              /\ claims[d].approval_reason = "Auto-finalize"
         /\ admitted # ran.before /\ admitted # claims
         /\ claims = RunInOrder(ran.before, o, "process_patient_admission",
                                "process_patient_discharge", p, o)
         /\ claims = run_task(claims, o, TaskMessage("process_patient_admission", p, o)).db
====
